---- MODULE Spec2Model ----
(***************************************************************************)
(* yamui: display-ownership arbitration and presentation controller.       *)
(*                                                                         *)
(* Every yamui process is a record of its C globals (src/yamui.c) plus its *)
(* position in main().  A C function that changes globals is an operator   *)
(* from the record before the call to the record after it, so a handler    *)
(* that calls other functions is the composition of their operators and    *)
(* one event-loop dispatch is one atomic action.  What the kernel and the  *)
(* bus daemon keep (the bus socket file, the connections made to the       *)
(* handoff socket) are variables of their own.                             *)
(***************************************************************************)
EXTENDS Integers, Sequences, FiniteSets, TLC

VARIABLES
    procs,            \* [Inst -> process record]: globals of each yamui process
    sock,             \* [Inst -> connection made by that process as handoff client]
    bus_socket_file,  \* does /run/dbus/system_bus_socket exist
    powerkey,         \* the globals and position of a yamui-powerkey process
    screensaverd      \* the globals and position of a yamui-screensaverd process

vars == <<procs, sock, bus_socket_file, powerkey, screensaverd>>

\* The two tools run on their own: no step of yamui touches them
tool_vars == <<powerkey, screensaverd>>
yamui_vars == <<procs, sock, bus_socket_file>>

(***************************************************************************)
(* Bounds of the model                                                     *)
(***************************************************************************)
NInst == 2            \* processes that may be started
MaxImages == 2        \* image files given on the command line
MaxInbox == 2         \* name notifications the bus has sent and the loop not yet read

Inst == 1..NInst

(***************************************************************************)
(* Program constants                                                       *)
(***************************************************************************)
EXIT_SUCCESS == 0
EXIT_FAILURE == 1
PROGRESS_LAST == 100                 \* app_update_progress_bar_cb: step > 100 ends

NoFd == -1                           \* descriptor variables start at -1
NoStep == -1                         \* app_step starts at -1

NoLogo == -1                         \* logo is the null surface: no image
Running == "running"                 \* exit status of a process not yet gone

(***************************************************************************)
(* DISPLAY                                                                 *)
(***************************************************************************)

\* Faulty variant: the loop is marked as quitting whether it runs or not,
\* and the call returns
mainloop_stop_unguarded(p) == [p EXCEPT !.loop_quit = TRUE]

\* mainloop_stop(): quit the loop; without a loop, _exit(EXIT_FAILURE).
\* The immediate exit is recorded in `aborted` and takes effect when the
\* step that called it is committed.
mainloop_stop(p) ==
    IF ~p.mainloop_handle
    THEN [p EXCEPT !.aborted = TRUE]
    ELSE [p EXCEPT !.loop_quit = TRUE]

\* gr_exit(): the surface is gone
gr_exit(p) == [p EXCEPT !.gr_up = FALSE]

\* freeLogo()
freeLogo(p) == [p EXCEPT !.logo = NoLogo]

display_release(p) ==
    IF ~p.display_released
    THEN gr_exit(freeLogo([p EXCEPT !.display_released = TRUE]))
    ELSE p

\* Faulty variant: a released display is initialized again
display_acquire_again(p, grOk) ==
    IF ~p.display_acquired \/ p.display_released
    THEN LET p1 == [p EXCEPT !.display_acquired = TRUE,
                             !.display_released = FALSE,
                             !.gr_init_calls = @ + 1]
         IN  IF ~grOk
             THEN mainloop_stop(display_release(p1))
             ELSE [p1 EXCEPT !.gr_up = TRUE]
    ELSE p

\* grOk: does gr_init(true) succeed
display_acquire(p, grOk) ==
    IF ~p.display_acquired /\ ~p.display_released
    THEN LET p1 == [p EXCEPT !.display_acquired = TRUE,
                             !.gr_init_calls = @ + 1]
         IN  IF ~grOk
             THEN mainloop_stop(display_release(p1))
             ELSE [p1 EXCEPT !.gr_up = TRUE]
    ELSE p

\* Faulty variant: the released flag is forgotten
display_is_acquired_ignores_release(p) == p.display_acquired

display_is_acquired(p) == p.display_acquired /\ ~p.display_released

\* Faulty variant: drawing is allowed whenever the display is acquired
display_can_be_drawn_when_acquired(p) == display_is_acquired(p)

display_can_be_drawn(p) ==
    display_is_acquired(p) /\ p.display_enabled /\ ~p.display_blanked

\* gr_fb_blank(v): hw_blank holds the last value handed to the hardware,
\* or "repeated" once a call has handed it the value it had from the call
\* before
gr_fb_blank(p, blanked) ==
    LET v == IF blanked THEN "blank" ELSE "unblank"
    IN  [p EXCEPT !.hw_blank = IF @ \in {v, "repeated"} THEN "repeated"
                               ELSE v]

\* Faulty variant: every request made with the display acquired reaches
\* the hardware
display_set_blanked_always(p, blanked) ==
    IF display_is_acquired(p)
    THEN gr_fb_blank([p EXCEPT !.display_blanked = blanked], blanked)
    ELSE p

display_set_blanked(p, blanked) ==
    IF display_is_acquired(p)
    THEN IF p.display_blanked # blanked
         THEN gr_fb_blank([p EXCEPT !.display_blanked = blanked], blanked)
         ELSE p
    ELSE p

(***************************************************************************)
(* APP: drawing                                                            *)
(***************************************************************************)

\* gr_flip(): one presented frame, with the display flags as they are at
\* this moment; `frames` holds the frames of the current dispatch.
gr_flip(p, mode) ==
    [p EXCEPT !.frames = Append(@, [mode     |-> mode,
                                    step     |-> p.app_step,
                                    logo     |-> p.logo,
                                    acquired |-> p.display_acquired,
                                    released |-> p.display_released,
                                    enabled  |-> p.display_enabled,
                                    blanked  |-> p.display_blanked])]

app_draw_text_only_cb(p) ==
    LET p1 == [p EXCEPT !.app_draw_ui_cb = "text_only"]
    IN  IF display_can_be_drawn(p1) THEN gr_flip(p1, "text_only") ELSE p1

app_draw_single_image_cb(p) ==
    LET p1 == [p EXCEPT !.app_draw_ui_cb = "single_image"]
    IN  IF display_can_be_drawn(p1) THEN gr_flip(p1, "single_image") ELSE p1

app_draw_progress_bar_cb(p) ==
    LET p1 == [p EXCEPT !.app_draw_ui_cb = "progress_bar"]
    IN  IF display_can_be_drawn(p1) THEN gr_flip(p1, "progress_bar") ELSE p1

app_draw_animate_images_cb(p) ==
    LET p1 == [p EXCEPT !.app_draw_ui_cb = "animate_images"]
    IN  IF display_can_be_drawn(p1) THEN gr_flip(p1, "animate_images") ELSE p1

\* Faulty variant: the redraw starts the mode over
app_draw_ui_restarts(p) ==
    CASE p.app_draw_ui_cb = "text_only"      -> app_draw_text_only_cb(p)
      [] p.app_draw_ui_cb = "single_image"   -> app_draw_single_image_cb(p)
      [] p.app_draw_ui_cb = "progress_bar"   ->
             app_draw_progress_bar_cb([p EXCEPT !.app_step = 0])
      [] p.app_draw_ui_cb = "animate_images" ->
             app_draw_animate_images_cb([p EXCEPT !.app_step = 0])
      [] OTHER                               -> p

\* app_draw_ui(): call the registered redraw hook, if any
app_draw_ui(p) ==
    CASE p.app_draw_ui_cb = "text_only"      -> app_draw_text_only_cb(p)
      [] p.app_draw_ui_cb = "single_image"   -> app_draw_single_image_cb(p)
      [] p.app_draw_ui_cb = "progress_bar"   -> app_draw_progress_bar_cb(p)
      [] p.app_draw_ui_cb = "animate_images" -> app_draw_animate_images_cb(p)
      [] OTHER                               -> p

\* Faulty variant: enabling updates leaves the display blanked
display_set_updates_enabled_stays_blank(p, enabled, grOk) ==
    LET p1 == IF enabled THEN display_acquire(p, grOk) ELSE p
        en == IF ~display_is_acquired(p1) THEN FALSE ELSE enabled
    IN  IF p1.display_enabled # en
        THEN IF en
             THEN app_draw_ui([p1 EXCEPT !.display_enabled = TRUE])
             ELSE display_set_blanked(
                      [p1 EXCEPT !.display_enabled = FALSE], TRUE)
        ELSE p1

\* Faulty variant: every call that asks for updates redraws
display_set_updates_enabled_redraws(p, enabled, grOk) ==
    LET p1 == IF enabled THEN display_acquire(p, grOk) ELSE p
        en == IF ~display_is_acquired(p1) THEN FALSE ELSE enabled
    IN  IF en
        THEN app_draw_ui(display_set_blanked(
                 [p1 EXCEPT !.display_enabled = TRUE], FALSE))
        ELSE IF p1.display_enabled
        THEN display_set_blanked([p1 EXCEPT !.display_enabled = FALSE], TRUE)
        ELSE p1

\* Faulty variant: enabled is not forced to false when the acquisition failed
display_set_updates_enabled_unforced(p, enabled, grOk) ==
    LET p1 == IF enabled THEN display_acquire(p, grOk) ELSE p
    IN  IF p1.display_enabled # enabled
        THEN IF enabled
             THEN app_draw_ui(display_set_blanked(
                      [p1 EXCEPT !.display_enabled = TRUE], FALSE))
             ELSE display_set_blanked(
                      [p1 EXCEPT !.display_enabled = FALSE], TRUE)
        ELSE p1

display_set_updates_enabled(p, enabled, grOk) ==
    LET p1 == IF enabled THEN display_acquire(p, grOk) ELSE p
        en == IF ~display_is_acquired(p1) THEN FALSE ELSE enabled
    IN  IF p1.display_enabled # en
        THEN IF en
             THEN app_draw_ui(display_set_blanked(
                      [p1 EXCEPT !.display_enabled = TRUE], FALSE))
             ELSE display_set_blanked(
                      [p1 EXCEPT !.display_enabled = FALSE], TRUE)
        ELSE p1

(***************************************************************************)
(* SYSTEMBUS                                                               *)
(***************************************************************************)

systembus_is_available(p) == p.systembus_socket_exists

\* Faulty variant: every call adds a timer
compositor_schedule_connect_unguarded(p) ==
    [p EXCEPT !.compositor_connect_id = 1, !.connect_sources = @ + 1]

\* g_timeout_add() attaches one more timer of compositor_connect_cb to the
\* loop and returns its id, never 0
compositor_schedule_connect(p) ==
    IF p.compositor_connect_id = 0
    THEN [p EXCEPT !.compositor_connect_id = 1, !.connect_sources = @ + 1]
    ELSE p

\* Faulty variant: the probe acts on what it sees, not on a change
systembus_probe_socket_level(p, socket_exists) ==
    LET p1 == [p EXCEPT !.systembus_socket_exists = socket_exists]
    IN  IF socket_exists
        THEN compositor_schedule_connect(p1)
        ELSE mainloop_stop(p1)

\* socket_exists: what access(SYSTEMBUS_SOCKET_PATH) reports
systembus_probe_socket(p, socket_exists) ==
    IF p.systembus_socket_exists # socket_exists
    THEN LET p1 == [p EXCEPT !.systembus_socket_exists = socket_exists]
         IN  IF socket_exists
             THEN compositor_schedule_connect(p1)
             ELSE mainloop_stop(p1)
    ELSE p

systembus_quit_socket_monitor(p) ==
    [p EXCEPT !.systembus_socket_monitor = FALSE]

\* ok: the monitor object and its signal connection could be created
systembus_init_socket_monitor(p, ok, socket_exists) ==
    IF ok
    THEN systembus_probe_socket(
             [p EXCEPT !.systembus_socket_monitor = TRUE], socket_exists)
    ELSE p

(***************************************************************************)
(* SIGNALS                                                                 *)
(***************************************************************************)

\* ok: signalfd, io watch and sigprocmask all succeeded
signals_init(p, ok) ==
    IF ok
    THEN [p EXCEPT !.signals_signal_fd = 1, !.signals_iowatch_id = 1,
                   !.signals_blocked = TRUE]
    ELSE p

\* sig_pending: the blocked signals that have been sent and not yet read.
\* Unblocking delivers a pending signal before sigprocmask() returns; the
\* disposition is the default one, so the process is killed there
\* (`killed`, which takes effect when the step is committed).
signals_quit(p) ==
    IF p.sig_pending # {}
    THEN [p EXCEPT !.signals_blocked = FALSE, !.sig_pending = {},
                   !.killed = TRUE]
    ELSE [p EXCEPT !.signals_blocked = FALSE,
                   !.signals_iowatch_id = 0,
                   !.signals_signal_fd = NoFd]

\* Faulty variant: the bridge stays in place after a signal
signals_iowatch_cb_stays(p, sig) ==
    mainloop_stop([p EXCEPT !.sig_pending = @ \ {sig}])

\* sig: the record that read() takes from the descriptor
signals_iowatch_cb(p, sig) ==
    signals_quit([mainloop_stop([p EXCEPT !.sig_pending = @ \ {sig}])
                     EXCEPT !.signals_iowatch_id = 0])

\* The signals of the mask of signals_init
Signals == {"SIGTERM", "SIGINT"}

\* The kernel generates sig for the process
kernel_signal(p, sig) ==
    IF p.signals_blocked
    THEN [p EXCEPT !.sig_pending = @ \cup {sig}]
    ELSE [p EXCEPT !.killed = TRUE]

(***************************************************************************)
(* UNIX_SERVER                                                             *)
(***************************************************************************)

\* fd: what accept() returned, NoFd or the descriptor of the accepted
\* connection (named by the client that made it).  The result of the C
\* function is unix_server_client_fd # NoFd afterwards.
unix_server_handle_client(p, fd) ==
    IF p.unix_server_socket_fd = NoFd THEN p
    ELSE IF fd = NoFd THEN p
    ELSE [p EXCEPT !.unix_server_client_fd = fd]

\* Faulty variant: a failed accept() stops the process as well
unix_server_iowatch_cb_strict(p, cnd, fd) ==
    IF cnd # "IN"
    THEN mainloop_stop([p EXCEPT !.unix_server_iowatch_id = 0,
                                 !.unix_server_watches = @ - 1])
    ELSE mainloop_stop(unix_server_handle_client(p, fd))

\* cnd: "IN" for a pure readable event, "ERR" for any event with
\* G_IO_ERR, G_IO_HUP or G_IO_NVAL in it. The watch that returns
\* G_SOURCE_REMOVE is detached from the loop
unix_server_iowatch_cb(p, cnd, fd) ==
    IF cnd # "IN"
    THEN mainloop_stop([p EXCEPT !.unix_server_iowatch_id = 0,
                                 !.unix_server_watches = @ - 1])
    ELSE LET p1 == unix_server_handle_client(p, fd)
         IN  IF p1.unix_server_client_fd # NoFd THEN mainloop_stop(p1) ELSE p1

\* ok: socket, bind, listen and the io watch all succeeded;
\* g_io_add_watch() attaches one more watch of the listening socket
unix_server_init(p, ok) ==
    IF p.unix_server_iowatch_id # 0 THEN p
    ELSE IF ok
    THEN [p EXCEPT !.unix_server_socket_fd = 1, !.unix_server_iowatch_id = 1,
                   !.unix_server_watches = @ + 1]
    ELSE p

\* g_source_remove() detaches the watch, close() ends the listening
unix_server_quit(p) ==
    LET p1 == IF p.unix_server_iowatch_id # 0
              THEN [p EXCEPT !.unix_server_iowatch_id = 0,
                             !.unix_server_watches = @ - 1]
              ELSE p
    IN  IF p1.unix_server_socket_fd # NoFd
        THEN [p1 EXCEPT !.unix_server_socket_fd = NoFd]
        ELSE p1

(***************************************************************************)
(* COMPOSITOR                                                              *)
(***************************************************************************)

\* Faulty variant: the request is not cleared by the notification
app_notify_systemd_repeated(p) ==
    IF p.app_systemd_notify
    THEN [p EXCEPT !.sd_notify_calls = @ + 1]
    ELSE p

\* sd_notify(0, "READY=1"), at most once
app_notify_systemd(p) ==
    IF p.app_systemd_notify
    THEN [p EXCEPT !.app_systemd_notify = FALSE, !.sd_notify_calls = @ + 1]
    ELSE p

app_on_enable_from_dbus(p) ==
    IF ~p.app_already_enabled
    THEN app_notify_systemd([p EXCEPT !.app_already_enabled = TRUE])
    ELSE p

COMPOSITOR_ACTION_NONE == 0
COMPOSITOR_ACTION_STOP_HWC == 1

\* What g_dbus_method_invocation_return_value/_return_error sends back,
\* or what a property handler returns: kind is the type of the value
\* ("none": no value; "i", "u", "b": the D-Bus type of val; "error")
Reply(method_name, kind, val) ==
    [method |-> method_name, kind |-> kind, val |-> val]

\* No call is being answered
NoReply == Reply("none", "none", 0)

\* Faulty variant: the setup actions are reported as none
compositor_method_call_cb_no_actions(p, method_name, enabled, grOk) ==
    IF method_name = "setUpdatesEnabled"
    THEN LET p1 == display_set_updates_enabled(p, enabled, grOk)
             p2 == IF enabled THEN app_on_enable_from_dbus(p1) ELSE p1
         IN  [p2 EXCEPT !.reply = Reply(method_name, "none", 0)]
    ELSE IF method_name = "privateTopmostWindowProcessId"
    THEN [p EXCEPT !.reply = Reply(method_name, "i", p.pid)]
    ELSE IF method_name = "privateGetSetupActions"
    THEN [p EXCEPT !.reply = Reply(method_name, "u", COMPOSITOR_ACTION_NONE)]
    ELSE [p EXCEPT !.reply = Reply(method_name, "error", 0)]

\* The globals after a method call, and the reply; only setUpdatesEnabled
\* changes any global. The error is G_DBUS_ERROR_NOT_SUPPORTED.
compositor_method_call_cb(p, method_name, enabled, grOk) ==
    IF method_name = "setUpdatesEnabled"
    THEN LET p1 == display_set_updates_enabled(p, enabled, grOk)
             p2 == IF enabled THEN app_on_enable_from_dbus(p1) ELSE p1
         IN  [p2 EXCEPT !.reply = Reply(method_name, "none", 0)]
    ELSE IF method_name = "privateTopmostWindowProcessId"
    THEN [p EXCEPT !.reply = Reply(method_name, "i", p.pid)]
    ELSE IF method_name = "privateGetSetupActions"
    THEN [p EXCEPT !.reply = Reply(method_name, "u",
                                   COMPOSITOR_ACTION_STOP_HWC)]
    ELSE [p EXCEPT !.reply = Reply(method_name, "error", 0)]

\* The property handlers: a null value, and FALSE (0)
compositor_get_property_cb(p) ==
    [p EXCEPT !.reply = Reply("Get", "none", 0)]

compositor_set_property_cb(p) ==
    [p EXCEPT !.reply = Reply("Set", "b", 0)]

\* Faulty variant: a failed registration is let pass
compositor_connected_cb_unchecked(p, registered) ==
    IF ~registered THEN p ELSE [p EXCEPT !.dbus_object = TRUE]

\* registered: g_dbus_connection_register_object() returned a non-zero id
compositor_connected_cb(p, registered) ==
    IF ~registered
    THEN mainloop_stop(p)
    ELSE [p EXCEPT !.dbus_object = TRUE]

\* Faulty variant: acquiring the name takes a pending stop request back
compositor_name_acquired_cb_resumes(p) ==
    [p EXCEPT !.compositor_name_acquired = TRUE, !.loop_quit = FALSE]

compositor_name_acquired_cb(p) ==
    [p EXCEPT !.compositor_name_acquired = TRUE]

\* Faulty variant: losing a name that was owned is ignored
compositor_name_lost_cb_no_handover(p, connection) ==
    IF ~connection THEN mainloop_stop(p) ELSE p

\* Faulty variant: any name-lost is taken for a handover
compositor_name_lost_cb_any(p, connection) == mainloop_stop(p)

\* connection: is the connection argument non-NULL
compositor_name_lost_cb(p, connection) ==
    IF ~connection THEN mainloop_stop(p)
    ELSE IF p.compositor_name_acquired THEN mainloop_stop(p)
    ELSE p

\* Faulty variant: asks for the name whether or not it has been asked for
compositor_connect_cb_unguarded(p) ==
    LET p1 == [p EXCEPT !.compositor_connect_id = 0,
                        !.connect_sources = @ - 1]
    IN  IF ~systembus_is_available(p1) THEN p1
        ELSE [p1 EXCEPT !.compositor_name_owning_id = 1,
                        !.name_requests = @ + 1,
                        !.bus_conn = "pending",
                        !.previous_call = "none"]

\* The timer that fired goes with G_SOURCE_REMOVE. g_bus_own_name() adds
\* an ownership request and starts an asynchronous connect; the callbacks
\* follow
compositor_connect_cb(p) ==
    LET p1 == [p EXCEPT !.compositor_connect_id = 0,
                        !.connect_sources = @ - 1]
    IN  IF ~systembus_is_available(p1) THEN p1
        ELSE IF p1.compositor_name_owning_id = 0
        THEN [p1 EXCEPT !.compositor_name_owning_id = 1,
                        !.name_requests = @ + 1,
                        !.bus_conn = "pending",
                        !.previous_call = "none"]
        ELSE p1

\* g_source_remove() detaches the timer
compositor_cancel_connect(p) ==
    IF p.compositor_connect_id # 0
    THEN [p EXCEPT !.compositor_connect_id = 0, !.connect_sources = @ - 1]
    ELSE p

\* g_bus_unown_name() ends the ownership request
compositor_disconnect(p) ==
    LET p1 == compositor_cancel_connect(p)
    IN  IF p1.compositor_name_owning_id # 0
        THEN [p1 EXCEPT !.compositor_name_owning_id = 0,
                        !.name_requests = @ - 1]
        ELSE p1

\* ok: the introspection data could be parsed
compositor_init(p, ok) ==
    IF ok THEN [p EXCEPT !.compositor_introspect_data = TRUE] ELSE p

compositor_quit(p) ==
    [compositor_disconnect(p) EXCEPT !.compositor_introspect_data = FALSE]

(***************************************************************************)
(* APP: presentation modes and startup                                     *)
(***************************************************************************)

app_flush_images(p) == [p EXCEPT !.app_image_count = 0]

\* loadLogo(app_images[idx]): frees the old image first; ok: decoded
loadLogo(p, idx, ok) ==
    IF ok THEN [freeLogo(p) EXCEPT !.logo = idx] ELSE freeLogo(p)

\* app_mode: the presentation mode whose start function has run
app_start_text_only(p) ==
    app_draw_text_only_cb([p EXCEPT !.app_mode = "text_only"])

\* Faulty variant: an image that cannot be loaded is passed over
app_start_single_image_lenient(p, loadOk) ==
    LET p0 == [p EXCEPT !.app_mode = "single_image"]
    IN  app_draw_single_image_cb(loadLogo(p0, 0, loadOk))

app_start_single_image(p, loadOk) ==
    LET p0 == [p EXCEPT !.app_mode = "single_image"]
    IN  IF ~loadOk
        THEN mainloop_stop(loadLogo(p0, 0, FALSE))
        ELSE app_draw_single_image_cb(loadLogo(p0, 0, TRUE))

\* Faulty variant: the bar ends one step early
app_update_progress_bar_cb_early(p) ==
    LET p1 == [p EXCEPT !.app_step = @ + 1]
    IN  IF p1.app_step >= PROGRESS_LAST
        THEN [mainloop_stop(p1) EXCEPT !.rc = "G_SOURCE_REMOVE"]
        ELSE [app_draw_progress_bar_cb(p1) EXCEPT !.rc = "G_SOURCE_CONTINUE"]

\* rc: the callback's return value, read by the timer that dispatched it
app_update_progress_bar_cb(p) ==
    LET p1 == [p EXCEPT !.app_step = @ + 1]
    IN  IF p1.app_step > PROGRESS_LAST
        THEN [mainloop_stop(p1) EXCEPT !.rc = "G_SOURCE_REMOVE"]
        ELSE [app_draw_progress_bar_cb(p1) EXCEPT !.rc = "G_SOURCE_CONTINUE"]

\* The widths of the C types, scaled down so that every duration can be
\* tried: unsigned long long, unsigned long and int/guint have 64, 64 and
\* 32 bits on an LP64 build
ULLONG_BITS == 11
ULONG_BITS == 11
UINT_BITS == 4

\* `int period = ...` handed to g_timeout_add(guint interval, ...): the
\* quotient goes through int to guint and keeps its low UINT_BITS bits
timeout_interval(quotient) == quotient % (2 ^ UINT_BITS)

\* (app_progress_ms + 101 - 1) / 101 in unsigned long long
progress_bar_period(progress_ms) ==
    timeout_interval(((progress_ms + 101 - 1) % (2 ^ ULLONG_BITS)) \div 101)

\* (app_animate_ms + app_image_count - 1) / app_image_count in unsigned long
animate_images_period(animate_ms, image_count) ==
    timeout_interval(((animate_ms + image_count - 1) % (2 ^ ULONG_BITS))
                        \div image_count)

app_start_progress_bar(p, loadOk) ==
    LET p0 == [p EXCEPT !.app_mode = "progress_bar"]
    IN  IF p0.app_image_count > 0 /\ ~loadOk
        THEN mainloop_stop(loadLogo(p0, 0, FALSE))
        ELSE LET p1 == IF p0.app_image_count > 0
                       THEN loadLogo(p0, 0, TRUE) ELSE p0
             IN  app_update_progress_bar_cb(
                     [p1 EXCEPT !.mode_timer = "progress_bar",
                                !.mode_period =
                                    progress_bar_period(p.app_progress_ms)])

\* Faulty variant: the index does not wrap around
app_update_animate_images_cb_nowrap(p, loadOk) ==
    LET p1 == [p EXCEPT !.app_step = @ + 1]
    IN  IF ~loadOk
        THEN [mainloop_stop(loadLogo(p1, p1.app_step, FALSE))
                 EXCEPT !.rc = "G_SOURCE_REMOVE"]
        ELSE [app_draw_animate_images_cb(loadLogo(p1, p1.app_step, TRUE))
                 EXCEPT !.rc = "G_SOURCE_CONTINUE"]

app_update_animate_images_cb(p, loadOk) ==
    LET p1 == [p EXCEPT !.app_step = (@ + 1) % p.app_image_count]
    IN  IF ~loadOk
        THEN [mainloop_stop(loadLogo(p1, p1.app_step, FALSE))
                 EXCEPT !.rc = "G_SOURCE_REMOVE"]
        ELSE [app_draw_animate_images_cb(loadLogo(p1, p1.app_step, TRUE))
                 EXCEPT !.rc = "G_SOURCE_CONTINUE"]

app_start_animate_images(p, loadOk) ==
    app_update_animate_images_cb(
        [p EXCEPT !.app_mode = "animate_images",
                  !.mode_timer = "animate_images",
                  !.mode_period =
                      animate_images_period(p.app_animate_ms,
                                            p.app_image_count)], loadOk)

\* Faulty variant: the stop timer lets a running mode timer finish first
app_stop_cb_waits_for_mode(p) ==
    IF p.mode_timer = "none" THEN mainloop_stop(p) ELSE p

app_stop_cb(p) == mainloop_stop(p)

\* Faulty variant: the progress bar is started with any number of images
app_start_mode_unchecked(p, loadOk) ==
    LET arm(q) == IF q.app_stop_ms > 0
                  THEN [q EXCEPT !.stop_timer = TRUE] ELSE q
    IN  IF p.app_progress_ms > 0
        THEN arm(app_start_progress_bar(p, loadOk))
        ELSE IF p.app_animate_ms > 0
        THEN IF p.app_image_count < 2 THEN mainloop_stop(p)
             ELSE arm(app_start_animate_images(p, loadOk))
        ELSE IF p.app_image_count > 0
        THEN arm(app_start_single_image(p, loadOk))
        ELSE IF p.app_text
        THEN arm(app_start_text_only(p))
        ELSE mainloop_stop(p)

\* The part of app_start_cb after the early-boot block
app_start_mode(p, loadOk) ==
    LET arm(q) == IF q.app_stop_ms > 0
                  THEN [q EXCEPT !.stop_timer = TRUE] ELSE q
    IN  IF p.app_progress_ms > 0
        THEN IF p.app_image_count > 1 THEN mainloop_stop(p)
             ELSE arm(app_start_progress_bar(p, loadOk))
        ELSE IF p.app_animate_ms > 0
        THEN IF p.app_image_count < 2 THEN mainloop_stop(p)
             ELSE arm(app_start_animate_images(p, loadOk))
        ELSE IF p.app_image_count > 0
        THEN arm(app_start_single_image(p, loadOk))
        ELSE IF p.app_text
        THEN arm(app_start_text_only(p))
        ELSE mainloop_stop(p)

\* Faulty variant: updates are enabled at startup with the bus there too
app_start_cb_always_enables(p, srvOk, grOk, loadOk) ==
    IF ~systembus_is_available(p)
    THEN LET p1 == unix_server_init(p, srvOk)
         IN  IF p1.unix_server_iowatch_id = 0
             THEN mainloop_stop(p1)
             ELSE app_start_mode(
                      display_set_updates_enabled(p1, TRUE, grOk), loadOk)
    ELSE app_start_mode(display_set_updates_enabled(p, TRUE, grOk), loadOk)

\* srvOk: unix_server_init() can set the server up
app_start_cb(p, srvOk, grOk, loadOk) ==
    IF ~systembus_is_available(p)
    THEN LET p1 == unix_server_init(p, srvOk)
         IN  IF p1.unix_server_iowatch_id = 0
             THEN mainloop_stop(p1)
             ELSE app_start_mode(
                      display_set_updates_enabled(p1, TRUE, grOk), loadOk)
    ELSE app_start_mode(p, loadOk)

(***************************************************************************)
(* Processes                                                               *)
(***************************************************************************)

\* The globals of a process as they are when main() is entered with the
\* command line cfg already stored by the option loop.
InitProc(cfg) ==
    [pc |-> "unstarted", exit_status |-> Running, aborted |-> FALSE,
     opt_terminate |-> cfg.terminate, do_cleanup |-> cfg.do_cleanup,
     client_ack |-> "unset",
     display_acquired |-> FALSE, display_released |-> FALSE,
     display_enabled |-> FALSE, display_blanked |-> FALSE,
     gr_up |-> FALSE, gr_init_calls |-> 0, hw_blank |-> "never",
     systembus_socket_exists |-> FALSE, systembus_socket_monitor |-> FALSE,
     mainloop_handle |-> FALSE, loop_quit |-> FALSE, start_pending |-> FALSE,
     signals_signal_fd |-> NoFd, signals_iowatch_id |-> 0,
     signals_blocked |-> FALSE, sig_pending |-> {}, killed |-> FALSE,
     unix_server_socket_fd |-> NoFd, unix_server_iowatch_id |-> 0,
     unix_server_watches |-> 0,
     unix_server_client_fd |-> NoFd,
     compositor_introspect_data |-> FALSE, compositor_name_owning_id |-> 0,
     compositor_connect_id |-> 0, compositor_name_acquired |-> FALSE,
     connect_sources |-> 0, name_requests |-> 0, mode_period |-> 0,
     bus_name |-> "none", bus_inbox |-> <<>>,
     bus_conn |-> "none", dbus_object |-> FALSE, previous_call |-> "none",
     app_animate_ms |-> cfg.animate_ms, app_stop_ms |-> cfg.stop_ms,
     app_progress_ms |-> cfg.progress_ms, app_text |-> cfg.text,
     app_image_count |-> cfg.image_count,
     app_already_enabled |-> FALSE, app_systemd_notify |-> cfg.systemd,
     app_step |-> NoStep, app_draw_ui_cb |-> "none", app_mode |-> "none",
     logo |-> NoLogo, mode_timer |-> "none", stop_timer |-> FALSE,
     sd_notify_calls |-> 0, pid |-> 0, reply |-> NoReply,
     frames |-> <<>>, rc |-> "none"]

\* live: the server was in its loop, watching its socket and not asked to
\* stop when the connection was made
NoConn == [peer |-> 0, st |-> "none", live |-> FALSE]

\* The processes that have the handoff address bound and listening
Listeners ==
    {j \in Inst : procs[j].pc # "exited" /\ procs[j].unix_server_socket_fd # NoFd}

\* A dispatch starts with nothing drawn and nothing replied
Begin(p) == [p EXCEPT !.frames = <<>>, !.reply = NoReply]

\* A step ends; an _exit() made in it ends the process, and so does a
\* signal delivered in it with the default disposition (no exit status)
Commit(p) ==
    IF p.aborted
    THEN [p EXCEPT !.pc = "exited", !.exit_status = EXIT_FAILURE,
                   !.rc = "none", !.mainloop_handle = FALSE]
    ELSE IF p.killed
    THEN [p EXCEPT !.pc = "exited", !.rc = "none"]
    ELSE [p EXCEPT !.rc = "none"]

\* What the kernel does to the connections made to process i when the
\* step that took it from p to q closed its listening socket (connections
\* still queued are reset) or ended the process (accepted connections
\* are closed: the peer reads end-of-stream).
KernelClose(s, i, p, q) ==
    [c \in Inst |->
        IF s[c].peer # i THEN s[c]
        ELSE IF s[c].st = "queued"
                /\ (q.pc = "exited" \/ q.unix_server_socket_fd = NoFd)
        THEN [s[c] EXCEPT !.st = "reset"]
        ELSE IF s[c].st = "accepted" /\ q.pc = "exited"
        THEN [s[c] EXCEPT !.st = "eof"]
        ELSE s[c]]

\* Process i goes from its record to q in one step that leaves the
\* connections as s
Step(i, q, s) ==
    LET q1 == Commit(q)
    IN  /\ procs' = [procs EXCEPT ![i] = q1]
        /\ sock' = KernelClose(s, i, procs[i], q1)
        /\ UNCHANGED <<bus_socket_file, tool_vars>>

InLoop(i) == procs[i].pc = "loop"

(***************************************************************************)
(* UNIX_CLIENT and main()                                                  *)
(***************************************************************************)

\* Faulty variant: a refused connect counts as an acknowledgement
unix_client_terminate_server_refused_ok(outcome) ==
    outcome \in {"eof", "ECONNREFUSED"}

\* The result of unix_client_terminate_server() by how far it got:
\* "ECONNREFUSED" or "connect_error" from connect(), then "read_error",
\* "data" or "eof" from the one read().
unix_client_terminate_server(outcome) == outcome = "eof"

\* exit(status)
exit(p, status) == [p EXCEPT !.pc = "exited", !.exit_status = status]

\* case 'x' of the option loop, once the client call has returned ack
main_terminate(p, ack) ==
    LET p1 == [p EXCEPT !.client_ack = IF ack THEN "ack" ELSE "nack"]
    IN  IF ~ack THEN exit(p1, EXIT_FAILURE) ELSE exit(p1, EXIT_SUCCESS)

\* main() up to the client call of line 1541; setup names the step that
\* fails, if any
main_init(p, setup, socket_exists) ==
    LET p1 == compositor_init(p, setup # "compositor_init")
    IN  IF ~p1.compositor_introspect_data
        THEN [p1 EXCEPT !.pc = "cleanup"]
        ELSE LET p2 == systembus_init_socket_monitor(
                           p1, setup # "monitor", socket_exists)
             IN  IF ~p2.systembus_socket_monitor
                 THEN [p2 EXCEPT !.pc = "cleanup"]
                 ELSE [p2 EXCEPT !.pc = "client"]

\* Faulty variant: a setup failure ends the process with the failure status
main_run_exits_on_failure(p, ack, setup) ==
    LET p1 == signals_init(
                  [p EXCEPT !.client_ack = IF ack THEN "ack" ELSE "nack"],
                  setup # "signals")
    IN  IF p1.signals_iowatch_id = 0 THEN exit(p1, EXIT_FAILURE)
        ELSE IF setup = "idle" THEN exit(p1, EXIT_FAILURE)
        ELSE [p1 EXCEPT !.pc = "loop", !.start_pending = TRUE,
                        !.mainloop_handle = TRUE]

\* main() from the return of the client call to the running loop
main_run(p, ack, setup) ==
    LET p1 == signals_init(
                  [p EXCEPT !.client_ack = IF ack THEN "ack" ELSE "nack"],
                  setup # "signals")
    IN  IF p1.signals_iowatch_id = 0 THEN [p1 EXCEPT !.pc = "cleanup"]
        ELSE IF setup = "idle" THEN [p1 EXCEPT !.pc = "cleanup"]
        ELSE [p1 EXCEPT !.pc = "loop", !.start_pending = TRUE,
                        !.mainloop_handle = TRUE]

\* mainloop_run() returns
mainloop_run_end(p) == [p EXCEPT !.mainloop_handle = FALSE, !.pc = "cleanup"]

\* Faulty variant: the cleanup leaves the supervisor notification out
main_cleanup_no_notify(p) ==
    [unix_server_quit(signals_quit(p)) EXCEPT !.pc = "release"]

\* The unconditional part of the cleanup
main_cleanup(p) ==
    [unix_server_quit(signals_quit(app_notify_systemd(p)))
        EXCEPT !.pc = "release"]

\* Faulty variant: the display is released with skip-cleanup too
main_release_always(p) ==
    exit(compositor_quit(systembus_quit_socket_monitor(
             app_flush_images(display_release(p)))), EXIT_SUCCESS)

\* The rest of the cleanup, and the return from main()
main_release(p) ==
    LET p1 == IF p.do_cleanup
              THEN compositor_quit(systembus_quit_socket_monitor(
                       app_flush_images(display_release(p))))
              ELSE p
    IN  exit(p1, EXIT_SUCCESS)

SetupOutcomes == {"ok", "compositor_init", "monitor", "signals", "idle"}

\* A process is started and runs until its client call connects or fails
MainStart(i) ==
    /\ procs[i].pc = "unstarted"
    /\ LET p == [Begin(procs[i]) EXCEPT !.pid = i]
           connect(q) ==
               \E j \in Listeners :
                   Step(i, [q EXCEPT !.pc = "client_read"],
                        [sock EXCEPT ![i] =
                            [peer |-> j, st |-> "queued",
                             live |-> /\ procs[j].pc = "loop"
                                      /\ ~procs[j].loop_quit
                                      /\ procs[j].unix_server_watches > 0]])
       IN  IF p.opt_terminate
           THEN IF Listeners = {}
                THEN Step(i, main_terminate(p,
                         unix_client_terminate_server("ECONNREFUSED")), sock)
                ELSE connect(p)
           ELSE \E setup \in SetupOutcomes :
                  LET p1 == main_init(p, setup, bus_socket_file)
                  IN  IF p1.pc = "cleanup" THEN Step(i, p1, sock)
                      ELSE IF Listeners = {}
                      THEN Step(i, main_run(p1,
                               unix_client_terminate_server("ECONNREFUSED"),
                               setup), sock)
                      ELSE connect(p1)

\* The blocking read of the client returns: end-of-stream or an error
MainRead(i) ==
    /\ procs[i].pc = "client_read"
    /\ sock[i].st \in {"eof", "reset"}
    /\ LET p == Begin(procs[i])
           ack == unix_client_terminate_server(
                      IF sock[i].st = "eof" THEN "eof" ELSE "read_error")
           s == [sock EXCEPT ![i] = NoConn]
       IN  IF p.opt_terminate
           THEN Step(i, main_terminate(p, ack), s)
           ELSE \E setup \in {"ok", "signals", "idle"} :
                    Step(i, main_run(p, ack, setup), s)

MainLoopExit(i) ==
    /\ InLoop(i) /\ procs[i].loop_quit
    /\ Step(i, mainloop_run_end(Begin(procs[i])), sock)

MainCleanup(i) ==
    /\ procs[i].pc = "cleanup"
    /\ Step(i, main_cleanup(Begin(procs[i])), sock)

MainRelease(i) ==
    /\ procs[i].pc = "release"
    /\ Step(i, main_release(Begin(procs[i])), sock)

(***************************************************************************)
(* Event loop dispatches                                                   *)
(***************************************************************************)

\* The idle source of main(): app_start_cb, once
AppStart(i) ==
    /\ InLoop(i) /\ procs[i].start_pending
    /\ \E srvOk \in (IF Listeners = {} THEN BOOLEAN ELSE {FALSE}),
          grOk \in BOOLEAN, loadOk \in BOOLEAN :
          Step(i, app_start_cb([Begin(procs[i]) EXCEPT !.start_pending = FALSE],
                               srvOk, grOk, loadOk), sock)

\* systembus_socket_monitor_event_cb
SocketMonitorEvent(i) ==
    /\ InLoop(i) /\ procs[i].systembus_socket_monitor
    /\ Step(i, systembus_probe_socket(Begin(procs[i]), bus_socket_file), sock)

\* The 50 ms timer of compositor_schedule_connect fires
CompositorConnectTimer(i) ==
    /\ InLoop(i) /\ procs[i].connect_sources > 0
    /\ Step(i, compositor_connect_cb(Begin(procs[i])), sock)

\* g_bus_own_name: the connection to the bus is there
DBusConnected(i) ==
    /\ InLoop(i) /\ procs[i].name_requests > 0
    /\ procs[i].bus_conn = "pending" /\ bus_socket_file
    /\ \E registered \in BOOLEAN :
          Step(i, compositor_connected_cb(
                      [Begin(procs[i]) EXCEPT !.bus_conn = "open"],
                      registered), sock)

\* g_bus_own_name: no connection could be made; name-lost with NULL
DBusConnectFailed(i) ==
    /\ InLoop(i) /\ procs[i].name_requests > 0
    /\ procs[i].bus_conn = "pending"
    /\ Step(i, compositor_name_lost_cb(
                   [Begin(procs[i]) EXCEPT !.bus_conn = "closed",
                                           !.previous_call = "lost"],
                   FALSE), sock)

\* The bus made this connection the owner of the name
DBusNameAcquired(i) ==
    /\ InLoop(i) /\ procs[i].name_requests > 0
    /\ procs[i].bus_conn = "open" /\ procs[i].previous_call # "acquired"
    /\ Step(i, compositor_name_acquired_cb(
                   [Begin(procs[i]) EXCEPT !.previous_call = "acquired"]), sock)

\* The name went to another owner, or the request was queued
DBusNameLost(i) ==
    /\ InLoop(i) /\ procs[i].name_requests > 0
    /\ procs[i].bus_conn = "open" /\ procs[i].previous_call # "lost"
    /\ Step(i, compositor_name_lost_cb(
                   [Begin(procs[i]) EXCEPT !.previous_call = "lost"],
                   TRUE), sock)

\* The connection to the bus closed; name-lost with NULL unless the last
\* callback was name-lost already
DBusDisconnected(i) ==
    /\ InLoop(i) /\ procs[i].name_requests > 0
    /\ procs[i].bus_conn = "open"
    /\ LET p == [Begin(procs[i]) EXCEPT !.bus_conn = "closed",
                                        !.previous_call = "lost"]
       IN  IF procs[i].previous_call # "lost"
           THEN Step(i, compositor_name_lost_cb(p, FALSE), sock)
           ELSE Step(i, p, sock)

Methods == {"setUpdatesEnabled", "privateTopmostWindowProcessId",
            "privateGetSetupActions", "privateTopmostWindowPolicyApplicationId"}

\* A method call arrives on the registered object
MethodCall(i) ==
    /\ InLoop(i) /\ procs[i].dbus_object /\ procs[i].bus_conn = "open"
    /\ \E method_name \in Methods, enabled \in BOOLEAN, grOk \in BOOLEAN :
          Step(i, compositor_method_call_cb(Begin(procs[i]), method_name,
                                            enabled, grOk), sock)

\* SIGTERM or SIGINT read from the signal descriptor
SignalEvent(i) ==
    /\ InLoop(i) /\ procs[i].signals_iowatch_id # 0
    /\ \E sig \in Signals :
          Step(i, signals_iowatch_cb(kernel_signal(Begin(procs[i]), sig),
                                     sig), sock)

\* A timer source is kept unless its callback returns G_SOURCE_REMOVE
timer_dispatch(q) ==
    IF q.rc = "G_SOURCE_REMOVE" THEN [q EXCEPT !.mode_timer = "none"] ELSE q

ProgressTick(i) ==
    /\ InLoop(i) /\ procs[i].mode_timer = "progress_bar"
    /\ Step(i, timer_dispatch(app_update_progress_bar_cb(Begin(procs[i]))),
            sock)

AnimateTick(i) ==
    /\ InLoop(i) /\ procs[i].mode_timer = "animate_images"
    /\ \E loadOk \in BOOLEAN :
          Step(i, timer_dispatch(
                      app_update_animate_images_cb(Begin(procs[i]), loadOk)),
               sock)

StopTimer(i) ==
    /\ InLoop(i) /\ procs[i].stop_timer
    /\ Step(i, app_stop_cb([Begin(procs[i]) EXCEPT !.stop_timer = FALSE]),
            sock)

\* The clients whose connection waits in the listen queue of process i
Queued(i) == {c \in Inst : sock[c].peer = i /\ sock[c].st = "queued"}

\* The listening socket is readable and accept() returns a connection
UnixServerAccept(i) ==
    /\ InLoop(i) /\ procs[i].unix_server_watches > 0
    /\ \E c \in Queued(i) :
          Step(i, unix_server_iowatch_cb(Begin(procs[i]), "IN", c),
               [sock EXCEPT ![c].st = "accepted"])

\* The listening socket is readable and accept() fails
UnixServerAcceptFail(i) ==
    /\ InLoop(i) /\ procs[i].unix_server_watches > 0
    /\ Queued(i) # {}
    /\ Step(i, unix_server_iowatch_cb(Begin(procs[i]), "IN", NoFd), sock)

\* An error, hangup or invalid condition on the listening socket
UnixServerError(i) ==
    /\ InLoop(i) /\ procs[i].unix_server_watches > 0
    /\ Step(i, unix_server_iowatch_cb(Begin(procs[i]), "ERR", NoFd), sock)

(***************************************************************************)
(* Environment                                                             *)
(***************************************************************************)

BusSocketAppears ==
    /\ ~bus_socket_file
    /\ bus_socket_file' = TRUE
    /\ UNCHANGED <<procs, sock, tool_vars>>

BusSocketDisappears ==
    /\ bus_socket_file
    /\ bus_socket_file' = FALSE
    /\ UNCHANGED <<procs, sock, tool_vars>>

(***************************************************************************)
(* yamui-powerkey (src/yamui-powerkey.c, src/yamui-tools.c)                *)
(***************************************************************************)

DEFAULT_DURATION == 3
EXIT_SIGNAL == 2
key_ev_up == 0
key_ev_down == 1

\* A yamui-powerkey process at the entry of main(). r: the ret_t a
\* function has returned; cause: why the process ended (what happened,
\* not what it reports); held: the seconds since the power key went down
\* with no release since, NotHeld when it is not down
NotHeld == -1

MaxDuration == 3
MaxHeld == MaxDuration + 1

InitPowerkey ==
    [pc |-> "start", duration |-> DEFAULT_DURATION, wait_key_up |-> FALSE,
     power_key_state |-> "key_up", key_tv |-> 0, running |-> TRUE,
     ret |-> EXIT_SIGNAL, r |-> "ret_continue",
     cause |-> "none", held |-> NotHeld]

\* Faulty variant: the timeout stays armed after the long press
get_timeout_value_after_press(p) ==
    IF p.power_key_state # "key_up" THEN "key_tv" ELSE "NULL"

get_timeout_value(p) ==
    IF p.power_key_state = "key_down" THEN "key_tv" ELSE "NULL"

set_timeout_value(p, sec) == [p EXCEPT !.key_tv = sec]

reset_timeout_value(p) == [p EXCEPT !.key_tv = p.duration]

\* Faulty variant: a new press goes on with what the last one left of
\* the timeout
handle_event_no_reset(p, ev) ==
    IF ~ev.power THEN [p EXCEPT !.r = "ret_continue"]
    ELSE IF p.power_key_state = "key_up"
    THEN IF ev.value = key_ev_down
         THEN [p EXCEPT !.power_key_state = "key_down",
                        !.r = "ret_continue"]
         ELSE [p EXCEPT !.r = "ret_continue"]
    ELSE IF p.power_key_state = "key_down"
    THEN IF ev.value = key_ev_up
         THEN [p EXCEPT !.power_key_state = "key_up", !.r = "ret_continue"]
         ELSE [p EXCEPT !.r = "ret_continue"]
    ELSE IF ev.value = key_ev_up
         THEN [p EXCEPT !.r = "ret_success"]
         ELSE [p EXCEPT !.r = "ret_continue"]

\* ev.power: type EV_KEY and code KEY_POWER; ev.value: 0 release,
\* 1 press, 2 autorepeat
handle_event(p, ev) ==
    IF ~ev.power THEN [p EXCEPT !.r = "ret_continue"]
    ELSE IF p.power_key_state = "key_up"
    THEN IF ev.value = key_ev_down
         THEN [reset_timeout_value([p EXCEPT !.power_key_state = "key_down"])
                  EXCEPT !.r = "ret_continue"]
         ELSE [p EXCEPT !.r = "ret_continue"]
    ELSE IF p.power_key_state = "key_down"
    THEN IF ev.value = key_ev_up
         THEN [p EXCEPT !.power_key_state = "key_up", !.r = "ret_continue"]
         ELSE [p EXCEPT !.r = "ret_continue"]
    ELSE IF ev.value = key_ev_up
         THEN [p EXCEPT !.r = "ret_success"]
         ELSE [p EXCEPT !.r = "ret_continue"]

handle_timeout(p) ==
    IF p.power_key_state # "key_down" THEN [p EXCEPT !.r = "ret_failure"]
    ELSE IF ~p.wait_key_up THEN [p EXCEPT !.r = "ret_success"]
    ELSE [p EXCEPT !.power_key_state = "key_long_press",
                   !.r = "ret_continue"]

\* handle_events() of yamui-tools.c: evs is what read() returned, a
\* sequence of whole events, or <<>> for an error, an end of file or an
\* incomplete event; the first event not answered with ret_continue ends it
RECURSIVE handle_events(_, _)
handle_events(p, evs) ==
    IF evs = <<>> THEN p
    ELSE LET p1 == handle_event(p, Head(evs))
         IN  IF p1.r # "ret_continue" THEN p1
             ELSE handle_events(p1, Tail(evs))

get_exit_status(r) ==
    IF r = "ret_success" THEN EXIT_SUCCESS ELSE EXIT_FAILURE

\* close_fds() and the return of main()
powerkey_return(p, why) ==
    [p EXCEPT !.pc = "exited", !.cause = why]

\* main() up to the loop. dopt: -d given, and d: its argument as atoi()
\* reads it; u: -u given; bad: -h, an unknown option or an extra
\* argument; devices: open_fds() found a device with a power key
powerkey_main(p, dopt, d, u, bad, devices) ==
    LET p1 == [p EXCEPT !.duration = IF dopt THEN d ELSE @,
                        !.wait_key_up = u]
    IN  IF (dopt /\ p1.duration < 1) \/ bad \/ ~devices
        THEN powerkey_return([p1 EXCEPT !.ret = EXIT_FAILURE], "error")
        ELSE [set_timeout_value(p1, p1.duration) EXCEPT !.pc = "select"]

\* One turn of the loop of main() where select() reports readable
\* devices; evs as in handle_events
powerkey_readable(p, evs) ==
    LET p1 == IF evs = <<>> THEN [p EXCEPT !.r = "ret_failure"]
              ELSE handle_events(p, evs)
    IN  IF p1.r = "ret_continue" THEN p1
        ELSE powerkey_return([p1 EXCEPT !.ret = get_exit_status(p1.r),
                                        !.running = FALSE],
                             IF p1.r = "ret_success" THEN "key" ELSE "error")

\* One turn of the loop where select() returns 0
powerkey_timeout(p) ==
    LET p1 == handle_timeout(p)
    IN  IF p1.r = "ret_continue" THEN p1
        ELSE powerkey_return([p1 EXCEPT !.ret = get_exit_status(p1.r)],
                             IF p1.r = "ret_success" THEN "key" ELSE "error")

\* select() fails: interrupted by SIGINT or SIGTERM, whose handler has
\* cleared running, or by another error
powerkey_select_failed(p, eintr) ==
    IF eintr
    THEN powerkey_return([p EXCEPT !.running = FALSE], "signal")
    ELSE powerkey_return([p EXCEPT !.ret = EXIT_FAILURE], "error")

\* What the events read say of the key itself: held since the first
\* press that no release has followed
RECURSIVE KeyHeld(_, _)
KeyHeld(held, evs) ==
    IF evs = <<>> THEN held
    ELSE LET ev == Head(evs)
             h  == IF ~ev.power THEN held
                   ELSE IF ev.value = key_ev_up THEN NotHeld
                   ELSE IF ev.value = key_ev_down /\ held = NotHeld THEN 0
                   ELSE held
         IN  KeyHeld(h, Tail(evs))

KeyEvents == [power : BOOLEAN, value : {key_ev_up, key_ev_down, 2}]
KeyReads == {<<>>} \cup {<<e>> : e \in KeyEvents}
               \cup {<<e, f>> : e, f \in [power : {TRUE},
                                         value : {key_ev_up, key_ev_down}]}

PkStart ==
    /\ powerkey.pc = "start"
    /\ \E d \in 0..MaxDuration, dopt, u, bad, devices \in BOOLEAN :
          powerkey' = powerkey_main(powerkey, dopt, d, u, bad, devices)
    /\ UNCHANGED <<yamui_vars, screensaverd>>

\* A second passes in select(); Linux leaves the time not yet waited in
\* key_tv, and at 0 select() returns
PkTick ==
    /\ powerkey.pc = "select"
    /\ powerkey.held # NotHeld
    /\ get_timeout_value(powerkey) = "key_tv" => powerkey.key_tv > 0
    /\ powerkey' =
          [powerkey EXCEPT
             !.key_tv = IF get_timeout_value(powerkey) = "key_tv"
                        THEN @ - 1 ELSE @,
             !.held = IF @ < MaxHeld THEN @ + 1 ELSE @]
    /\ UNCHANGED <<yamui_vars, screensaverd>>

PkTimeout ==
    /\ powerkey.pc = "select"
    /\ get_timeout_value(powerkey) = "key_tv"
    /\ powerkey.key_tv = 0
    /\ powerkey' = powerkey_timeout(powerkey)
    /\ UNCHANGED <<yamui_vars, screensaverd>>

PkEvent ==
    /\ powerkey.pc = "select"
    /\ \E evs \in KeyReads :
          powerkey' = [powerkey_readable(powerkey, evs) EXCEPT
                         !.held = KeyHeld(powerkey.held, evs)]
    /\ UNCHANGED <<yamui_vars, screensaverd>>

PkSignal ==
    /\ powerkey.pc = "select"
    /\ powerkey' = powerkey_select_failed(powerkey, TRUE)
    /\ UNCHANGED <<yamui_vars, screensaverd>>

PkSelectError ==
    /\ powerkey.pc = "select"
    /\ powerkey' = powerkey_select_failed(powerkey, FALSE)
    /\ UNCHANGED <<yamui_vars, screensaverd>>

(***************************************************************************)
(* yamui-screensaverd (src/yamui-screensaverd.c)                           *)
(***************************************************************************)

DISPLAY_OFF_TIME == 25

\* A yamui-screensaverd process at the entry of main(). blank: what
\* /sys/class/graphics/fb0/blank holds, 0 for a display that is on and 1
\* for one that is off; idle: the seconds select() has waited; wrote: the
\* values the step just taken asked sysfs_write_int() to write; failed: a
\* write could not open the file; cause: why the process ended
InitScreensaverd ==
    [pc |-> "start", display_state |-> "state_unknown", running |-> TRUE,
     ret |-> EXIT_SUCCESS, blank |-> 0, idle |-> 0, wrote |-> <<>>,
     failed |-> FALSE, cause |-> "none"]

sysfs_write_int(p, val, ok) ==
    IF ok THEN [p EXCEPT !.blank = val, !.wrote = Append(@, val)]
    ELSE [p EXCEPT !.wrote = Append(@, val), !.failed = TRUE]

\* Faulty variant: writes whatever state is recorded
turn_display_on_always(p, ok) ==
    sysfs_write_int([p EXCEPT !.display_state = "state_on"], 0, ok)

turn_display_on(p, ok) ==
    IF p.display_state = "state_on" THEN p
    ELSE sysfs_write_int([p EXCEPT !.display_state = "state_on"], 0, ok)

turn_display_off(p, ok) ==
    IF p.display_state = "state_off" THEN p
    ELSE sysfs_write_int([p EXCEPT !.display_state = "state_off"], 1, ok)

\* The end of the loop of main(): turn_display_on(), close_fds(), return
screensaverd_return(p, why, ok) ==
    [turn_display_on(p, ok) EXCEPT !.pc = "exited", !.cause = why]

\* main() up to the loop; devices: open_fds() found a suitable device;
\* lit: the display is on when the process starts
screensaverd_main(p, devices, lit) ==
    LET p1 == [p EXCEPT !.blank = IF lit THEN 0 ELSE 1]
    IN  IF ~devices
        THEN [p1 EXCEPT !.pc = "exited", !.ret = EXIT_FAILURE,
                        !.cause = "no_devices"]
        ELSE [p1 EXCEPT !.pc = "select"]

\* One turn of the loop where select() reports readable devices;
\* readOk: no read() of handle_events() failed or met an end of file
screensaverd_readable(p, readOk, ok) ==
    LET p0 == [p EXCEPT !.wrote = <<>>, !.idle = 0]
    IN  IF readOk THEN turn_display_on(p0, ok)
        ELSE screensaverd_return(
                 turn_display_on([p0 EXCEPT !.running = FALSE], ok),
                 "read", ok)

\* One turn of the loop where select() returns 0
screensaverd_timeout(p, ok) ==
    turn_display_off([p EXCEPT !.wrote = <<>>, !.idle = 0], ok)

\* select() fails: interrupted by SIGINT or SIGTERM, whose handler has
\* cleared running, or by another error
screensaverd_select_failed(p, eintr, ok) ==
    LET p0 == [p EXCEPT !.wrote = <<>>]
    IN  IF eintr
        THEN screensaverd_return([p0 EXCEPT !.running = FALSE], "signal", ok)
        ELSE screensaverd_return([p0 EXCEPT !.ret = EXIT_FAILURE],
                                 "select", ok)

SsStart ==
    /\ screensaverd.pc = "start"
    /\ \E devices, lit \in BOOLEAN :
          screensaverd' = screensaverd_main(screensaverd, devices, lit)
    /\ UNCHANGED <<yamui_vars, powerkey>>

\* A second passes in select()
SsTick ==
    /\ screensaverd.pc = "select"
    /\ screensaverd.idle < DISPLAY_OFF_TIME
    /\ screensaverd' = [screensaverd EXCEPT !.idle = @ + 1, !.wrote = <<>>]
    /\ UNCHANGED <<yamui_vars, powerkey>>

SsTimeout ==
    /\ screensaverd.pc = "select"
    /\ screensaverd.idle = DISPLAY_OFF_TIME
    /\ \E ok \in BOOLEAN :
          screensaverd' = screensaverd_timeout(screensaverd, ok)
    /\ UNCHANGED <<yamui_vars, powerkey>>

SsEvent ==
    /\ screensaverd.pc = "select"
    /\ \E readOk, ok \in BOOLEAN :
          screensaverd' = screensaverd_readable(screensaverd, readOk, ok)
    /\ UNCHANGED <<yamui_vars, powerkey>>

SsSignal ==
    /\ screensaverd.pc = "select"
    /\ \E ok \in BOOLEAN :
          screensaverd' = screensaverd_select_failed(screensaverd, TRUE, ok)
    /\ UNCHANGED <<yamui_vars, powerkey>>

SsSelectError ==
    /\ screensaverd.pc = "select"
    /\ \E ok \in BOOLEAN :
          screensaverd' = screensaverd_select_failed(screensaverd, FALSE, ok)
    /\ UNCHANGED <<yamui_vars, powerkey>>

\* Neither tool has been started
ToolsNotStarted ==
    /\ powerkey = InitPowerkey
    /\ screensaverd = InitScreensaverd

(***************************************************************************)
(* Specifications                                                          *)
(***************************************************************************)

SomeMs == 1000        \* a duration given on the command line

Cfg(progress, animate, images, text, stop, systemd, cleanup) ==
    [terminate |-> FALSE, progress_ms |-> progress, animate_ms |-> animate,
     image_count |-> images, text |-> text, stop_ms |-> stop,
     systemd |-> systemd, do_cleanup |-> cleanup]

\* Command lines the option loop accepts (an image or a text is given):
\* text only, single image, animation, and the two the startup rejects
BaseConfigs ==
    {Cfg(0, 0, 0, TRUE, 0, TRUE, TRUE),
     Cfg(0, 0, 0, TRUE, SomeMs, FALSE, FALSE),
     Cfg(0, 0, 1, FALSE, SomeMs, TRUE, TRUE),
     Cfg(0, SomeMs, 1, TRUE, SomeMs, FALSE, TRUE),
     Cfg(SomeMs, 0, 2, FALSE, 0, TRUE, TRUE)}
    \cup {Cfg(0, SomeMs, n, FALSE, 0, TRUE, TRUE) : n \in 2..MaxImages}

\* Progress bar, with and without the image above it
ProgressConfigs ==
    {Cfg(SomeMs, 0, 1, FALSE, SomeMs, TRUE, TRUE),
     Cfg(SomeMs, 0, 0, TRUE, 0, FALSE, FALSE)}

\* An animation that a stop timer ends
StopConfigs ==
    {Cfg(0, SomeMs, 2, FALSE, SomeMs, FALSE, TRUE)}

\* yamui --terminate
TerminateConfig ==
    [terminate |-> TRUE, progress_ms |-> 0, animate_ms |-> 0,
     image_count |-> 0, text |-> FALSE, stop_ms |-> 0, systemd |-> FALSE,
     do_cleanup |-> TRUE]

\* Instances started while the bus is absent, and terminate requests
HandoffConfigs ==
    {TerminateConfig,
     Cfg(0, 0, 0, TRUE, 0, FALSE, TRUE),
     Cfg(0, 0, 0, TRUE, 0, FALSE, FALSE)}

\* One process, started at any time of the boot, in a text, image or
\* animation mode, with the bus coming up or going down around it.
Init ==
    /\ \E c \in BaseConfigs :
          procs = [i \in Inst |-> InitProc(IF i = 1 THEN c ELSE TerminateConfig)]
    /\ sock = [i \in Inst |-> NoConn]
    /\ ToolsNotStarted
    /\ bus_socket_file \in BOOLEAN

Next ==
    \/ BusSocketAppears
    \/ BusSocketDisappears
    \/ \E i \in {1} :
          \/ MainStart(i)
          \/ AppStart(i)
          \/ SocketMonitorEvent(i)
          \/ CompositorConnectTimer(i)
          \/ DBusConnected(i)
          \/ DBusConnectFailed(i)
          \/ DBusNameAcquired(i)
          \/ DBusNameLost(i)
          \/ DBusDisconnected(i)
          \/ MethodCall(i)
          \/ SignalEvent(i)
          \/ AnimateTick(i)
          \/ StopTimer(i)
          \/ UnixServerError(i)
          \/ MainLoopExit(i)
          \/ MainCleanup(i)
          \/ MainRelease(i)

Spec == Init /\ [][Next]_vars

\* g_main_loop_run() returns once the loop was quit, and main() then runs
\* to its end
MainLeaves == \E i \in {1} : MainLoopExit(i) \/ MainCleanup(i) \/ MainRelease(i)

\* The process of Spec, called on the bus with setUpdatesEnabled only
UpdatesEnabledCall(i) ==
    /\ InLoop(i) /\ procs[i].dbus_object /\ procs[i].bus_conn = "open"
    /\ \E enabled \in BOOLEAN, grOk \in BOOLEAN :
          Step(i, compositor_method_call_cb(Begin(procs[i]),
                      "setUpdatesEnabled", enabled, grOk), sock)

NextFair ==
    \/ BusSocketAppears
    \/ BusSocketDisappears
    \/ \E i \in {1} :
          \/ MainStart(i)
          \/ AppStart(i)
          \/ SocketMonitorEvent(i)
          \/ CompositorConnectTimer(i)
          \/ DBusConnected(i)
          \/ DBusConnectFailed(i)
          \/ DBusNameAcquired(i)
          \/ DBusNameLost(i)
          \/ DBusDisconnected(i)
          \/ UpdatesEnabledCall(i)
          \/ SignalEvent(i)
          \/ AnimateTick(i)
          \/ StopTimer(i)
          \/ UnixServerError(i)
          \/ MainLoopExit(i)
          \/ MainCleanup(i)
          \/ MainRelease(i)

SpecFair == Init /\ [][NextFair]_vars /\ WF_vars(MainLeaves)

\* One process in any of the four presentation modes; the bus may come up
\* and the compositor policy manager then calls the methods, and the
\* process is stopped by its stop timer, a signal or its own mode.
InitModes ==
    /\ \E c \in BaseConfigs \cup ProgressConfigs \cup StopConfigs :
          procs = [i \in Inst |-> InitProc(IF i = 1 THEN c ELSE TerminateConfig)]
    /\ sock = [i \in Inst |-> NoConn]
    /\ ToolsNotStarted
    /\ bus_socket_file \in BOOLEAN

NextModes ==
    \/ BusSocketAppears
    \/ \E i \in {1} :
          \/ MainStart(i)
          \/ AppStart(i)
          \/ SocketMonitorEvent(i)
          \/ CompositorConnectTimer(i)
          \/ DBusConnected(i)
          \/ MethodCall(i)
          \/ SignalEvent(i)
          \/ ProgressTick(i)
          \/ AnimateTick(i)
          \/ StopTimer(i)
          \/ MainLoopExit(i)
          \/ MainCleanup(i)
          \/ MainRelease(i)

SpecModes == InitModes /\ [][NextModes]_vars

\* mainloop_stop() called from any place of a started yamui process: in
\* a dispatch of the loop, or in main() after the loop has returned
StopRequest(i) ==
    /\ procs[i].pc \in {"loop", "cleanup", "release"}
    /\ Step(i, mainloop_stop(procs[i]), sock)

\* The process of SpecModes, with stop requested at any time of its life
NextStop ==
    \/ NextModes
    \/ \E i \in {1} : StopRequest(i)

SpecStop == InitModes /\ [][NextStop]_vars

\* A termination signal is sent to a started yamui process: kept pending
\* while the signals are blocked, the end of the process otherwise
SignalArrives(i) ==
    /\ procs[i].pc \in {"loop", "cleanup", "release"}
    /\ \E sig \in Signals : Step(i, kernel_signal(procs[i], sig), sock)

\* The signal descriptor is readable and its watch is dispatched
SignalDispatch(i) ==
    /\ InLoop(i) /\ procs[i].signals_iowatch_id # 0
    /\ procs[i].sig_pending # {}
    /\ \E sig \in procs[i].sig_pending :
          Step(i, signals_iowatch_cb(Begin(procs[i]), sig), sock)

\* One process started while the bus is absent, with termination signals
\* sent to it at any time and dispatched by the loop when it gets to them
InitSignals ==
    /\ \E c \in BaseConfigs :
          procs = [i \in Inst |-> InitProc(IF i = 1 THEN c ELSE TerminateConfig)]
    /\ sock = [i \in Inst |-> NoConn]
    /\ ToolsNotStarted
    /\ bus_socket_file = FALSE

NextSignals ==
    \E i \in {1} :
        \/ MainStart(i)
        \/ AppStart(i)
        \/ SignalArrives(i)
        \/ SignalDispatch(i)
        \/ StopTimer(i)
        \/ MainLoopExit(i)
        \/ MainCleanup(i)
        \/ MainRelease(i)

SpecSignals == InitSignals /\ [][NextSignals]_vars

\* A Get or Set of org.freedesktop.DBus.Properties arrives on the object
PropertyGet(i) ==
    /\ InLoop(i) /\ procs[i].dbus_object /\ procs[i].bus_conn = "open"
    /\ Step(i, compositor_get_property_cb(Begin(procs[i])), sock)

PropertySet(i) ==
    /\ InLoop(i) /\ procs[i].dbus_object /\ procs[i].bus_conn = "open"
    /\ Step(i, compositor_set_property_cb(Begin(procs[i])), sock)

\* The process of SpecModes, with the property handlers called as well
NextRpc ==
    \/ NextModes
    \/ \E i \in {1} : PropertyGet(i) \/ PropertySet(i)

SpecRpc == InitModes /\ [][NextRpc]_vars

\* Several processes started while the bus is absent: instances that show
\* a text and terminate requests, in any order and interleaving.
InitHandoff ==
    /\ \E cs \in [Inst -> HandoffConfigs] :
          procs = [i \in Inst |-> InitProc(cs[i])]
    /\ sock = [i \in Inst |-> NoConn]
    /\ ToolsNotStarted
    /\ bus_socket_file = FALSE

NextHandoff ==
    \E i \in Inst :
        \/ MainStart(i)
        \/ MainRead(i)
        \/ AppStart(i)
        \/ SignalEvent(i)
        \/ UnixServerAccept(i)
        \/ UnixServerAcceptFail(i)
        \/ UnixServerError(i)
        \/ MainLoopExit(i)
        \/ MainCleanup(i)
        \/ MainRelease(i)

SpecHandoff == InitHandoff /\ [][NextHandoff]_vars

(***************************************************************************)
(* Instances competing for the service name                                *)
(*                                                                         *)
(* The message bus is not part of the sources.  It is modelled by the      *)
(* rules of RequestName for the flags compositor_connect_cb passes         *)
(* (REPLACE and ALLOW_REPLACEMENT, no DO_NOT_QUEUE): a requester replaces  *)
(* an owner that allows it, and the replaced owner is queued.  bus_name is *)
(* what the bus holds for the connection of a process ("none", "owner" or  *)
(* "queued"), bus_inbox the notifications sent to it and not yet           *)
(* dispatched.  Another service, the compositor proper, may hold the name: *)
(* it does whenever no instance is the owner and one is queued.            *)
(***************************************************************************)

BusOwners == {j \in Inst : procs[j].bus_name = "owner"}
BusQueued == {j \in Inst : procs[j].bus_name = "queued"}

\* The bus tells process record p what became of its request
bus_notify(p, state, what) ==
    [p EXCEPT !.bus_name = state, !.bus_inbox = Append(@, what)]

\* The bus handles the RequestName of process i. granted: no other
\* instance owns the name, and it is free or its holder lets it go
BusRequestName(i) ==
    /\ procs[i].pc \in {"loop", "cleanup", "release"}
    /\ procs[i].bus_conn = "open" /\ procs[i].name_requests > 0
    /\ procs[i].bus_name = "none"
    /\ \A j \in Inst : Len(procs[j].bus_inbox) < MaxInbox
    /\ \E granted \in BOOLEAN :
          procs' = [j \in Inst |->
                      IF j = i
                      THEN IF BusOwners # {} \/ granted
                           THEN bus_notify(procs[j], "owner", "acquired")
                           ELSE bus_notify(procs[j], "queued", "lost")
                      ELSE IF j \in BusOwners
                      THEN bus_notify(procs[j], "queued", "lost")
                      ELSE procs[j]]
    /\ UNCHANGED <<sock, bus_socket_file, tool_vars>>

\* The compositor proper asks for the name and replaces the instance that
\* owns it
BusForeignTakes ==
    /\ BusOwners # {}
    /\ \A j \in Inst : Len(procs[j].bus_inbox) < MaxInbox
    /\ procs' = [j \in Inst |->
                    IF j \in BusOwners
                    THEN bus_notify(procs[j], "queued", "lost")
                    ELSE procs[j]]
    /\ UNCHANGED <<sock, bus_socket_file, tool_vars>>

\* The compositor proper gives the name up and a queued instance gets it
BusForeignLeaves ==
    /\ BusOwners = {}
    /\ \E j \in BusQueued :
          /\ Len(procs[j].bus_inbox) < MaxInbox
          /\ procs' = [procs EXCEPT
                          ![j] = bus_notify(@, "owner", "acquired")]
    /\ UNCHANGED <<sock, bus_socket_file, tool_vars>>

\* Process i has released the name (g_bus_unown_name) or is gone: the bus
\* forgets it, and the name it owned goes to a queued instance, if any
BusConnectionGone(i) ==
    /\ procs[i].bus_name # "none"
    /\ procs[i].pc = "exited" \/ procs[i].name_requests = 0
    /\ \A j \in Inst : Len(procs[j].bus_inbox) < MaxInbox
    /\ LET left == [procs EXCEPT ![i].bus_name = "none"]
       IN  IF procs[i].bus_name = "owner" /\ BusQueued # {}
           THEN \E j \in BusQueued :
                   procs' = [left EXCEPT
                               ![j] = bus_notify(@, "owner", "acquired")]
           ELSE procs' = left
    /\ UNCHANGED <<sock, bus_socket_file, tool_vars>>

\* The loop of process i reads a notification; g_bus_own_name calls the
\* handler unless its last call was the same one
BusDeliver(i) ==
    /\ InLoop(i) /\ procs[i].name_requests > 0
    /\ procs[i].bus_inbox # <<>>
    /\ LET what == Head(procs[i].bus_inbox)
           p == [Begin(procs[i]) EXCEPT !.bus_inbox = Tail(@),
                                        !.previous_call = what]
       IN  IF what = procs[i].previous_call THEN Step(i, p, sock)
           ELSE IF what = "acquired"
           THEN Step(i, compositor_name_acquired_cb(p), sock)
           ELSE Step(i, compositor_name_lost_cb(p, TRUE), sock)

\* Two instances started with the bus up: each asks for the name once it
\* is connected, and is stopped by a signal or by losing the name
InitNames ==
    /\ \E cleanup \in BOOLEAN :
          procs = [i \in Inst |->
                     InitProc(IF i = 1 THEN Cfg(0, 0, 0, TRUE, 0, FALSE, cleanup)
                              ELSE IF i = 2 THEN Cfg(0, 0, 0, TRUE, 0, FALSE, TRUE)
                              ELSE TerminateConfig)]
    /\ sock = [i \in Inst |-> NoConn]
    /\ ToolsNotStarted
    /\ bus_socket_file = TRUE

NextNames ==
    \/ BusForeignTakes
    \/ BusForeignLeaves
    \/ \E i \in {1, 2} :
          \/ MainStart(i)
          \/ AppStart(i)
          \/ CompositorConnectTimer(i)
          \/ DBusConnected(i)
          \/ BusRequestName(i)
          \/ BusDeliver(i)
          \/ BusConnectionGone(i)
          \/ SignalEvent(i)
          \/ MainLoopExit(i)
          \/ MainCleanup(i)
          \/ MainRelease(i)

SpecNames == InitNames /\ [][NextNames]_vars

(***************************************************************************)
(* Claims                                                                  *)
(***************************************************************************)

\* The flags a frame needs, read from the flags themselves
Drawable(f) == f.acquired /\ ~f.released /\ f.enabled /\ ~f.blanked

\* C1: in every mode, every frame that was presented was presented while
\* the display was acquired, not released, enabled and not blanked, and
\* no frame is presented by a dispatch that ends with the display released.
C1_FramesOnlyWhenDrawable ==
    \A i \in Inst :
        /\ \A k \in 1..Len(procs[i].frames) : Drawable(procs[i].frames[k])
        /\ procs[i].display_released => procs[i].frames = <<>>

\* C1 witness: a progress bar frame after the first, presented on a
\* display this process was told to enable over the bus
C1_Witness ==
    \E i \in Inst :
        /\ procs[i].frames # <<>>
        /\ procs[i].frames[1].mode = "progress_bar"
        /\ procs[i].frames[1].step > 0
        /\ procs[i].app_already_enabled

\* C2: gr_init() is attempted at most once in a process, and once the
\* display is released it stays released, is not acquired, is not
\* initialized again and updates are not enabled, whatever is called.
C2_AcquireOnceReleaseForever ==
    /\ [](\A i \in Inst : procs[i].gr_init_calls <= 1)
    /\ [][\A i \in Inst :
            procs[i].display_released =>
                /\ procs'[i].display_released
                /\ ~display_is_acquired(procs'[i])
                /\ ~procs'[i].gr_up
                /\ procs'[i].gr_init_calls = procs[i].gr_init_calls
                /\ (procs'[i].pc = "loop" => ~procs'[i].display_enabled)]_vars

\* C2 witness: the display was released by a failed initialization and a
\* setUpdatesEnabled(true) call was handled in that state
C2_Witness ==
    \E i \in Inst :
        /\ procs[i].pc = "loop"
        /\ procs[i].display_released
        /\ procs[i].gr_init_calls = 1
        /\ procs[i].app_already_enabled
        /\ procs[i].unix_server_socket_fd # NoFd

\* C3 as claimed: enabled implies acquired and not released, in every
\* state, the states after the cleanup release() included.
C3_Original ==
    \A i \in Inst : procs[i].display_enabled => display_is_acquired(procs[i])

\* C3 amended: enabled implies the acquired flag in every state, and
\* implies not released in every state before main() has run its cleanup
\* release(); display_release() itself leaves the enabled flag alone.
C3_EnabledImpliesAcquired ==
    \A i \in Inst :
        procs[i].display_enabled =>
            /\ procs[i].display_acquired
            /\ procs[i].pc # "exited" => ~procs[i].display_released

\* C3 witness: the acquisition failed, the display is released, and
\* updates are not enabled although enabling was asked for
C3_Witness ==
    \E i \in Inst :
        /\ procs[i].pc = "loop"
        /\ procs[i].display_acquired /\ procs[i].display_released
        /\ ~procs[i].display_enabled

\* C4: display_can_be_drawn() is true exactly when the acquired flag is
\* set, the released flag is not, updates are enabled and the display is
\* not blanked.
C4_CanDrawIff ==
    \A i \in Inst :
        display_can_be_drawn(procs[i]) <=>
            (/\ procs[i].display_acquired /\ ~procs[i].display_released
             /\ procs[i].display_enabled /\ ~procs[i].display_blanked)

\* C4 witness: a state in which drawing is allowed and one was just made
C4_Witness ==
    \E i \in Inst :
        /\ display_can_be_drawn(procs[i])
        /\ procs[i].frames # <<>>

\* The processes that hold an initialized display surface
Holders == {i \in Inst : procs[i].pc # "exited" /\ procs[i].gr_up}

\* C5: of the instances started while the bus is absent, at most one live
\* process holds the display (gr_init() done, gr_exit() not yet) at any
\* time.
C5_OneDisplayHolder == Cardinality(Holders) <= 1

\* Process i leaves main()'s startup in this step
Started(i) == procs[i].pc = "unstarted" /\ procs'[i].pc # "unstarted"

\* C6 as stated: when nobody listens on the handoff address, the client
\* call returns success without blocking and without a stop request, and
\* yamui --terminate exits with EXIT_SUCCESS.
C6_Original ==
    [][\A i \in Inst :
          (Started(i) /\ Listeners = {} /\ procs'[i].client_ack # "unset") =>
              /\ procs'[i].client_ack = "ack"
              /\ procs'[i].pc # "client_read"
              /\ ~procs'[i].loop_quit /\ ~procs'[i].aborted
              /\ procs[i].opt_terminate =>
                     /\ procs'[i].pc = "exited"
                     /\ procs'[i].exit_status = EXIT_SUCCESS]_vars

\* C6: when nobody listens on the handoff address, the client call returns
\* at once and without a stop request in its own process, but it returns
\* false: the startup goes on regardless of the result, and
\* yamui --terminate exits with EXIT_FAILURE.
C6_RefusedIsFailure ==
    [][\A i \in Inst :
          (Started(i) /\ Listeners = {} /\ procs'[i].client_ack # "unset") =>
              /\ procs'[i].client_ack = "nack"
              /\ procs'[i].pc # "client_read"
              /\ ~procs'[i].loop_quit /\ ~procs'[i].aborted
              /\ procs[i].opt_terminate =>
                     /\ procs'[i].pc = "exited"
                     /\ procs'[i].exit_status = EXIT_FAILURE
              /\ ~procs[i].opt_terminate =>
                     procs'[i].pc \in {"loop", "cleanup"}]_vars

\* C6 witness: yamui --terminate has run while no other process was ever
\* started, and has exited
C6_Witness ==
    \E i \in Inst :
        /\ procs[i].opt_terminate /\ procs[i].pc = "exited"
        /\ procs[i].client_ack = "nack"
        /\ procs[i].exit_status = EXIT_FAILURE
        /\ \A j \in Inst \ {i} : procs[j].pc = "unstarted"

\* C7: the read of a client that connected to a live server returns
\* end-of-stream, which the client takes as success, and returns only
\* after the server process has exited.
C7_LiveServerGivesEof ==
    [][\A i \in Inst :
          (/\ procs[i].pc = "client_read" /\ procs'[i].pc # "client_read"
           /\ sock[i].live) =>
              /\ sock[i].st = "eof"
              /\ procs'[i].client_ack = "ack"
              /\ procs[sock[i].peer].pc = "exited"]_vars

\* C8: a probe that sees what was last known changes nothing; one that
\* sees the socket appear records it and leaves a connect scheduled without
\* a stop request; one that sees it disappear records it and requests
\* stop.  The probe of the startup obeys the same rule.
C8_ProbeEdgeTriggered ==
    [][\A i \in Inst :
          LET p == procs[i]
              q == procs'[i]
              seen == bus_socket_file
          IN  /\ SocketMonitorEvent(i) =>
                    /\ seen = p.systembus_socket_exists => q = Begin(p)
                    /\ seen /\ ~p.systembus_socket_exists =>
                          /\ q.systembus_socket_exists
                          /\ q.compositor_connect_id # 0
                          /\ q.loop_quit = p.loop_quit /\ ~q.aborted
                    /\ ~seen /\ p.systembus_socket_exists =>
                          /\ ~q.systembus_socket_exists
                          /\ q.loop_quit
                          /\ q.compositor_connect_id = p.compositor_connect_id
              /\ Started(i) /\ q.systembus_socket_monitor =>
                    /\ q.systembus_socket_exists = seen
                    /\ (q.compositor_connect_id # 0) = seen
                    /\ ~q.loop_quit /\ ~q.aborted]_vars

\* C8 witness: a process that owns its bus connection, with nothing else
\* that could have stopped it, has seen the socket disappear and is
\* stopping
C8_Witness ==
    \E i \in Inst :
        /\ procs[i].pc = "loop" /\ procs[i].loop_quit
        /\ ~procs[i].systembus_socket_exists
        /\ procs[i].bus_conn = "open" /\ procs[i].dbus_object
        /\ procs[i].previous_call # "lost"
        /\ procs[i].signals_iowatch_id # 0
        /\ procs[i].app_stop_ms = 0
        /\ procs[i].unix_server_socket_fd = NoFd
        /\ procs[i].app_draw_ui_cb = "text_only"
        /\ ~procs[i].display_released

\* C9: name-lost without a connection requests stop; name-lost with a
\* connection requests stop if the name had been acquired and otherwise
\* changes nothing but the bookkeeping of the bus library; and
\* compositor_name_acquired becomes true only in the name-acquired callback.
C9_NameLost ==
    [][\A i \in Inst :
          LET p == procs[i]
              q == procs'[i]
          IN  /\ DBusConnectFailed(i) => q.loop_quit
              /\ (DBusDisconnected(i) /\ p.previous_call # "lost") =>
                    q.loop_quit
              /\ DBusNameLost(i) =>
                    IF p.compositor_name_acquired
                    THEN q.loop_quit
                    ELSE q = [Begin(p) EXCEPT !.previous_call = "lost"]
              /\ (~p.compositor_name_acquired /\ q.compositor_name_acquired)
                    => DBusNameAcquired(i)]_vars

\* C9 witness: the name was lost before it was ever acquired, and the
\* process keeps running on its open connection
C9_Witness ==
    \E i \in Inst :
        /\ procs[i].pc = "loop" /\ ~procs[i].loop_quit
        /\ procs[i].bus_conn = "open" /\ procs[i].previous_call = "lost"
        /\ ~procs[i].compositor_name_acquired
        /\ procs[i].dbus_object

\* sd_notify() is called in this step of process i
Notified(i) == procs'[i].sd_notify_calls > procs[i].sd_notify_calls

\* C10 as stated: the notification is sent once, in a method call that
\* takes updates-enabled from false to true.
C10_Original ==
    /\ [](\A i \in Inst : procs[i].sd_notify_calls <= 1)
    /\ [][\A i \in Inst :
             Notified(i) =>
                 /\ MethodCall(i)
                 /\ ~procs[i].display_enabled
                 /\ procs'[i].display_enabled]_vars

\* C10: the notification is sent at most once, and only if it was
\* requested; it is sent by the first setUpdatesEnabled(true) call, whether
\* or not the call changes updates-enabled, or else by the cleanup; and a
\* process that returns from main() has sent it if it was requested.
C10_NotifiedOnce ==
    /\ [](\A i \in Inst :
             /\ procs[i].sd_notify_calls
                  + (IF procs[i].app_systemd_notify THEN 1 ELSE 0) <= 1
             /\ (procs[i].pc = "exited" /\ procs[i].exit_status = EXIT_SUCCESS
                  /\ ~procs[i].opt_terminate)
                    => ~procs[i].app_systemd_notify)
    /\ [][\A i \in Inst :
             Notified(i) =>
                 \/ /\ MethodCall(i)
                    /\ ~procs[i].app_already_enabled
                    /\ procs'[i].app_already_enabled
                 \/ MainCleanup(i)]_vars

\* C10 witness: a process that enabled updates by itself before the bus
\* was there has been notified by a method call that changed nothing
C10_Witness ==
    \E i \in Inst :
        /\ procs[i].pc = "loop" /\ procs[i].sd_notify_calls = 1
        /\ procs[i].unix_server_socket_fd # NoFd
        /\ procs[i].display_enabled /\ procs[i].app_already_enabled
        /\ procs[i].frames = <<>>

\* C11: a step that takes display_enabled from false to true leaves the
\* display unblanked and presents exactly one frame if a redraw hook is
\* registered (none otherwise), drawn after the unblank and showing the
\* current step and image; a step that takes it from true to false only
\* blanks: nothing is drawn and image, step and hook stay as they are; a
\* method call that leaves the flag alone neither blanks, unblanks nor draws.
C11_EnableRedrawsOnce ==
    [][\A i \in Inst :
          LET p == procs[i]
              q == procs'[i]
          IN  /\ (~p.display_enabled /\ q.display_enabled) =>
                    /\ ~q.display_blanked
                    /\ p.display_blanked => q.hw_blank = "unblank"
                    /\ Len(q.frames) = IF q.app_draw_ui_cb # "none" THEN 1 ELSE 0
                    /\ \A k \in 1..Len(q.frames) :
                          /\ ~q.frames[k].blanked
                          /\ q.frames[k].step = q.app_step
                          /\ q.frames[k].logo = q.logo
                          /\ q.frames[k].mode = q.app_draw_ui_cb
              /\ (p.display_enabled /\ ~q.display_enabled) =>
                    /\ q.display_blanked /\ q.hw_blank = "blank"
                    /\ q.frames = <<>>
                    /\ q.logo = p.logo /\ q.app_step = p.app_step
                    /\ q.app_draw_ui_cb = p.app_draw_ui_cb
                    /\ q.mode_timer = p.mode_timer
              /\ (MethodCall(i) /\ p.display_enabled = q.display_enabled) =>
                    /\ q.display_blanked = p.display_blanked
                    /\ q.hw_blank = p.hw_blank
                    /\ q.frames = <<>>]_vars

\* C11 witness: updates were disabled and enabled again over the bus in the
\* middle of a progress bar, and the bar was repainted at its current step
C11_Witness ==
    \E i \in Inst :
        /\ procs[i].hw_blank = "unblank"
        /\ procs[i].display_enabled /\ ~procs[i].display_blanked
        /\ Len(procs[i].frames) = 1
        /\ procs[i].frames[1].mode = "progress_bar"
        /\ procs[i].frames[1].step = procs[i].app_step
        /\ procs[i].app_step > 0
        /\ procs[i].mode_timer = "progress_bar"

\* The one frame a progress bar update offers: presented if the display can
\* be drawn, dropped otherwise
ProgressFrameOffered(q) ==
    IF display_can_be_drawn(q)
    THEN /\ Len(q.frames) = 1
         /\ q.frames[1].mode = "progress_bar"
         /\ q.frames[1].step = q.app_step
    ELSE q.frames = <<>>

\* C12: while the progress bar timer runs the step is within 0..100; the
\* mode starts at step 0 and every tick adds one; each step up to 100 offers
\* one frame and keeps the timer without a stop request; the tick that
\* makes the step 101 draws nothing, requests stop and removes the timer,
\* whether or not the display could be drawn.
C12_ProgressSteps ==
    /\ [](\A i \in Inst :
             /\ procs[i].mode_timer = "progress_bar" =>
                    procs[i].app_step \in 0..PROGRESS_LAST
             /\ procs[i].app_progress_ms > 0 =>
                    procs[i].app_step \in NoStep..(PROGRESS_LAST + 1))
    /\ [][\A i \in Inst :
             LET p == procs[i]
                 q == procs'[i]
             IN  /\ (p.mode_timer = "none" /\ q.mode_timer = "progress_bar") =>
                       /\ p.app_step = NoStep /\ q.app_step = 0
                       /\ ProgressFrameOffered(q)
                 /\ (p.app_progress_ms > 0 /\ q.app_step # p.app_step) =>
                       q.app_step = p.app_step + 1
                 /\ ProgressTick(i) =>
                       /\ q.app_step = p.app_step + 1
                       /\ IF q.app_step <= PROGRESS_LAST
                          THEN /\ q.mode_timer = "progress_bar"
                               /\ q.loop_quit = p.loop_quit
                               /\ ProgressFrameOffered(q)
                          ELSE /\ q.mode_timer = "none"
                               /\ q.loop_quit
                               /\ q.frames = <<>>]_vars

\* C12 witness: a progress bar that was never allowed to draw has gone
\* through all its steps and has stopped the loop
C12_Witness ==
    \E i \in Inst :
        /\ procs[i].pc = "loop" /\ procs[i].loop_quit
        /\ procs[i].app_step = PROGRESS_LAST + 1
        /\ procs[i].mode_timer = "none"
        /\ ~procs[i].display_acquired
        /\ procs[i].signals_iowatch_id # 0 /\ ~procs[i].stop_timer
        /\ procs[i].app_stop_ms = 0

\* C13: in the animation the index is 0 at the update of the mode start and
\* each tick takes it to the next index modulo the number of images, so the
\* k-th update uses index k mod N; the image loaded is the one with that
\* index, which is always within 0..N-1.
C13_AnimateIndex ==
    /\ [](\A i \in Inst :
             (InLoop(i) /\ procs[i].mode_timer = "animate_images") =>
                 /\ procs[i].app_image_count >= 2
                 /\ procs[i].app_step \in 0..(procs[i].app_image_count - 1)
                 /\ procs[i].logo \in {NoLogo, procs[i].app_step})
    /\ [][\A i \in Inst :
             LET p == procs[i]
                 q == procs'[i]
             IN  /\ (p.mode_timer = "none" /\ q.mode_timer = "animate_images")
                       => q.app_step = 0
                 /\ AnimateTick(i) =>
                       /\ q.app_step = (p.app_step + 1) % p.app_image_count
                       /\ q.app_step \in 0..(p.app_image_count - 1)
                       /\ q.logo \in {NoLogo, q.app_step}
                       /\ q.logo # NoLogo =>
                              /\ q.mode_timer = "animate_images"
                              /\ display_can_be_drawn(q) =>
                                     /\ Len(q.frames) = 1
                                     /\ q.frames[1].logo = q.app_step
                 /\ (p.app_animate_ms > 0 /\ p.app_progress_ms = 0
                     /\ q.app_step # p.app_step /\ p.app_step # NoStep)
                       => AnimateTick(i)]_vars

\* C13 witness: a tick of the longest animation has loaded and presented
\* the last image of the list
C13_Witness ==
    \E i \in Inst :
        /\ InLoop(i) /\ procs[i].mode_timer = "animate_images"
        /\ procs[i].app_image_count = MaxImages
        /\ procs[i].app_step = MaxImages - 1
        /\ procs[i].logo = MaxImages - 1
        /\ Len(procs[i].frames) = 1
        /\ procs[i].frames[1].logo = MaxImages - 1
        /\ procs[i].frames[1].mode = "animate_images"

\* The mode a configuration calls for, "none" for one that is rejected
ExpectedMode(p) ==
    IF p.app_progress_ms > 0
    THEN IF p.app_image_count > 1 THEN "none" ELSE "progress_bar"
    ELSE IF p.app_animate_ms > 0
    THEN IF p.app_image_count < 2 THEN "none" ELSE "animate_images"
    ELSE IF p.app_image_count > 0 THEN "single_image"
    ELSE IF p.app_text THEN "text_only"
    ELSE "none"

\* What the startup step does about the mode when sel tells whether it
\* gets as far as selecting one
StartsMode(i, sel) ==
    LET p == procs[i]
        q == procs'[i]
        mode == IF sel THEN ExpectedMode(p) ELSE "none"
    IN  /\ AppStart(i) =>
              /\ q.app_mode = mode
              /\ mode = "none" =>
                    /\ q.loop_quit /\ ~q.stop_timer
                    /\ q.mode_timer = "none" /\ q.app_draw_ui_cb = "none"
                    /\ q.app_step = NoStep /\ q.frames = <<>>
              /\ mode # "none" =>
                    /\ q.stop_timer = (p.app_stop_ms > 0)
                    /\ q.app_draw_ui_cb \in {mode, "none"}
                    /\ q.app_draw_ui_cb = "none" => q.loop_quit
                    /\ q.mode_timer \in {"none", mode}
        /\ q.app_mode # p.app_mode => (AppStart(i) /\ p.app_mode = "none")
        /\ (p.app_draw_ui_cb # "none" /\ p.pc = "loop") =>
              q.app_draw_ui_cb = p.app_mode

\* C14 as stated: the startup step starts the mode the configuration calls
\* for and none for a rejected one, which arms no stop timer and requests
\* stop; the mode never changes afterwards.
C14_Original == [][\A i \in Inst : StartsMode(i, TRUE)]_vars

\* C14: as stated whenever the startup step gets as far as selecting a
\* mode; when the handoff server it needs before the bus is there cannot be
\* set up, it starts no mode and arms no stop timer, whatever the
\* configuration, and requests stop.
C14_OneModeAtStartup ==
    [][\A i \in Inst :
          StartsMode(i, \/ systembus_is_available(procs[i])
                        \/ procs'[i].unix_server_iowatch_id # 0)]_vars

\* C14 witness: a rejected configuration with a stop duration, after a
\* startup that had set up the handoff server and enabled the display
C14_Witness ==
    \E i \in Inst :
        /\ InLoop(i) /\ ~procs[i].start_pending
        /\ procs[i].unix_server_iowatch_id # 0 /\ procs[i].display_enabled
        /\ procs[i].app_stop_ms > 0 /\ ~procs[i].stop_timer
        /\ procs[i].app_mode = "none" /\ procs[i].loop_quit

\* Only the startup step of a process that has not seen the bus creates
\* the handoff server, and only that step or a method call acquires or
\* enables the display; a startup step that has seen the bus does neither.
OwnAuthorityOnlyBeforeBus(i) ==
    LET p == procs[i]
        q == procs'[i]
    IN  /\ (AppStart(i) /\ systembus_is_available(p)) =>
              /\ q.unix_server_socket_fd = NoFd
              /\ q.unix_server_iowatch_id = 0
              /\ q.display_acquired = p.display_acquired
              /\ q.display_enabled = p.display_enabled
              /\ q.gr_init_calls = p.gr_init_calls
        /\ (p.unix_server_socket_fd = NoFd /\ q.unix_server_socket_fd # NoFd)
              => (AppStart(i) /\ ~systembus_is_available(p))
        /\ \/ (~p.display_acquired /\ q.display_acquired)
           \/ (~p.display_enabled /\ q.display_enabled)
              => \/ AppStart(i) /\ ~systembus_is_available(p)
                 \/ MethodCall(i)

\* C15 as stated: the startup step sets up the handoff server and enables
\* the display exactly if it has not seen the bus; having seen it, it
\* creates no server and the display stays unacquired and disabled until
\* a method call.
C15_Original ==
    [][\A i \in Inst :
          /\ OwnAuthorityOnlyBeforeBus(i)
          /\ AppStart(i) =>
                ((/\ procs'[i].unix_server_iowatch_id # 0
                  /\ procs'[i].display_enabled)
                    <=> ~systembus_is_available(procs[i]))]_vars

\* C15: as stated, except that a startup step that has not seen the bus
\* only tries: if the server cannot be set up it requests stop and leaves
\* the display alone, and with the server set up the display is enabled
\* exactly if its one initialization succeeds, a failure releasing the
\* display and requesting stop.
C15_OwnAuthority ==
    [][\A i \in Inst :
          LET p == procs[i]
              q == procs'[i]
          IN  /\ OwnAuthorityOnlyBeforeBus(i)
              /\ (AppStart(i) /\ ~systembus_is_available(p)) =>
                    IF q.unix_server_iowatch_id = 0
                    THEN /\ q.loop_quit /\ q.unix_server_socket_fd = NoFd
                         /\ ~q.display_acquired /\ ~q.display_enabled
                         /\ q.gr_init_calls = 0
                    ELSE /\ q.unix_server_socket_fd # NoFd
                         /\ q.display_acquired /\ q.gr_init_calls = 1
                         /\ q.display_enabled = ~q.display_released
                         /\ q.display_enabled = q.gr_up
                         /\ q.display_released => q.loop_quit]_vars

\* C15 witness: a process whose startup step saw the bus has no handoff
\* server and has had its display enabled by a method call
C15_Witness ==
    \E i \in Inst :
        /\ InLoop(i) /\ ~procs[i].start_pending
        /\ procs[i].app_mode # "none"
        /\ procs[i].unix_server_socket_fd = NoFd
        /\ procs[i].display_enabled /\ procs[i].app_already_enabled
        /\ procs[i].gr_init_calls = 1

\* The modes that have no end of their own
EndlessModes == {"text_only", "single_image", "animate_images"}

\* C16: with a stop duration the startup step that starts a mode arms the
\* stop timer, whatever the mode, nothing else arms it, and its one firing
\* requests stop with the mode still running; without a stop duration
\* there is never a stop timer, and in the text, single image and
\* animation modes stop is then requested only on a failure (display
\* initialization, image load, object registration) or from outside
\* (signal, bus socket gone).
C16_StopTimer ==
    /\ [](\A i \in Inst :
             /\ procs[i].app_stop_ms = 0 => ~procs[i].stop_timer
             /\ procs[i].stop_timer => procs[i].app_mode # "none")
    /\ [][\A i \in Inst :
             LET p == procs[i]
                 q == procs'[i]
             IN  /\ (AppStart(i) /\ q.app_mode # "none") =>
                       q.stop_timer = (p.app_stop_ms > 0)
                 /\ (~p.stop_timer /\ q.stop_timer) => AppStart(i)
                 /\ (p.stop_timer /\ ~q.stop_timer) => StopTimer(i)
                 /\ StopTimer(i) => /\ q.loop_quit /\ ~q.stop_timer
                                     /\ q.mode_timer = p.mode_timer
                                     /\ q.app_step = p.app_step
                 /\ (/\ InLoop(i) /\ p.app_stop_ms = 0
                      /\ q.app_mode \in EndlessModes
                      /\ ~p.loop_quit /\ q.loop_quit) =>
                       \/ (AppStart(i) \/ MethodCall(i)) /\ q.display_released
                       \/ (AppStart(i) \/ AnimateTick(i))
                             /\ q.app_mode # "text_only" /\ q.logo = NoLogo
                       \/ DBusConnected(i) /\ ~q.dbus_object
                       \/ SignalEvent(i)
                       \/ SocketMonitorEvent(i)]_vars

\* C16 witness: the stop timer has fired on an animation that was still
\* running and had shown more than its first image
C16_Witness ==
    \E i \in Inst :
        /\ InLoop(i) /\ procs[i].loop_quit
        /\ procs[i].app_stop_ms > 0 /\ ~procs[i].stop_timer
        /\ procs[i].app_mode = "animate_images"
        /\ procs[i].mode_timer = "animate_images"
        /\ procs[i].app_step = 1 /\ procs[i].logo = 1
        /\ procs[i].signals_iowatch_id # 0

\* C17: a stop request in the running loop only marks the loop as
\* quitting, however often it is made, and the step that makes it runs
\* to its end in the loop; the loop is then left once, through the return
\* of mainloop_run, and the cleanup runs once. A stop request with no
\* loop running ends the process on the spot with the failure status,
\* and nothing of the cleanup is done.
C17_StopRequest ==
    [][\A i \in Inst :
          LET p == procs[i]
              q == procs'[i]
          IN  /\ p.pc = "loop" =>
                    /\ q.pc \in {"loop", "cleanup"} /\ ~q.aborted
                    /\ q.pc = "loop" => (p.loop_quit => q.loop_quit)
                    /\ q.pc = "cleanup" => MainLoopExit(i) /\ p.loop_quit
              /\ (StopRequest(i) /\ p.pc = "loop") =>
                    q = [p EXCEPT !.loop_quit = TRUE]
              /\ (SignalEvent(i) \/ StopTimer(i)) =>
                    /\ q.loop_quit /\ q.pc = "loop"
                    /\ SignalEvent(i) =>
                          q.signals_iowatch_id = 0 /\ ~q.signals_blocked
              /\ (p.pc # "loop" /\ q.pc = "loop") => p.pc = "unstarted"
              /\ (p.pc # "cleanup" /\ q.pc = "cleanup") =>
                    p.pc \in {"unstarted", "loop"}
              /\ (p.pc # "release" /\ q.pc = "release") =>
                    MainCleanup(i) /\ p.pc = "cleanup"
              /\ p.pc = "exited" => q.pc = "exited"
              /\ (StopRequest(i) /\ p.pc # "loop") =>
                    q = [p EXCEPT !.aborted = TRUE, !.pc = "exited",
                                  !.exit_status = EXIT_FAILURE]]_vars

\* C17 witness: stop was requested twice in the loop, by the stop timer
\* and by a signal, and the process has then left through the cleanup
C17_Witness ==
    \E i \in Inst :
        /\ procs[i].pc = "exited" /\ ~procs[i].aborted
        /\ procs[i].exit_status = EXIT_SUCCESS
        /\ procs[i].app_stop_ms > 0 /\ procs[i].app_mode # "none"
        /\ ~procs[i].stop_timer
        /\ procs[i].signals_signal_fd = NoFd
        /\ procs[i].loop_quit

\* C17 witness of the second case: stop requested after the loop has
\* returned, in the middle of the cleanup
C17_WitnessNoLoop ==
    \E i \in Inst :
        /\ procs[i].pc = "exited" /\ procs[i].aborted
        /\ procs[i].exit_status = EXIT_FAILURE
        /\ procs[i].gr_up /\ ~procs[i].display_released
        /\ procs[i].do_cleanup

\* What signals_quit and unix_server_quit leave behind
SignalsRestored(q) ==
    /\ ~q.signals_blocked
    /\ q.signals_iowatch_id = 0 /\ q.signals_signal_fd = NoFd

ListenerClosed(q) ==
    q.unix_server_iowatch_id = 0 /\ q.unix_server_socket_fd = NoFd

\* The unconditional cleanup step restores the signals and closes the
\* listener; first is TRUE if nothing else may take effect in that step.
\* A process leaves main only through that step and the conditional one
\* after it, which releases the display, forgets the images, removes the
\* bus socket watch and gives up the service name exactly if skip-cleanup
\* was not asked for.
CleanupEffects(i, first) ==
    LET p == procs[i]
        q == procs'[i]
    IN  /\ MainCleanup(i) =>
              /\ SignalsRestored(q) /\ ListenerClosed(q)
              /\ q = [p EXCEPT
                        !.signals_blocked = FALSE,
                        !.signals_iowatch_id = 0,
                        !.signals_signal_fd = NoFd,
                        !.unix_server_iowatch_id = 0,
                        !.unix_server_watches = 0,
                        !.unix_server_socket_fd = NoFd,
                        !.frames = <<>>,
                        !.reply = NoReply,
                        !.pc = "release",
                        !.app_systemd_notify =
                            IF first THEN @ ELSE FALSE,
                        !.sd_notify_calls =
                            IF ~first /\ p.app_systemd_notify
                            THEN @ + 1 ELSE @]
        /\ (~p.opt_terminate /\ p.pc # "exited" /\ q.pc = "exited") =>
              MainRelease(i)
        /\ MainRelease(i) =>
              /\ SignalsRestored(q) /\ ListenerClosed(q)
              /\ q.exit_status = EXIT_SUCCESS
              /\ IF p.do_cleanup
                 THEN /\ q.display_released /\ ~q.gr_up
                      /\ q.app_image_count = 0
                      /\ ~q.systembus_socket_monitor
                      /\ q.compositor_connect_id = 0
                      /\ q.compositor_name_owning_id = 0
                      /\ ~q.compositor_introspect_data
                 ELSE /\ q.display_released = p.display_released
                      /\ q.gr_up = p.gr_up /\ q.logo = p.logo
                      /\ q.app_image_count = p.app_image_count
                      /\ q.systembus_socket_monitor
                            = p.systembus_socket_monitor
                      /\ q.compositor_connect_id = p.compositor_connect_id
                      /\ q.compositor_name_owning_id
                            = p.compositor_name_owning_id
                      /\ q.compositor_introspect_data
                            = p.compositor_introspect_data

\* C18 as stated: restoring the signals and closing the listener come
\* before anything else of the cleanup.
C18_Original == [][\A i \in Inst : CleanupEffects(i, TRUE)]_vars

\* C18: as stated, except that a readiness notification still owed to
\* the supervisor is sent first, before the signals are restored and the
\* listener is closed.
C18_Cleanup == [][\A i \in Inst : CleanupEffects(i, FALSE)]_vars

\* C18 witness: a process that enabled its display on its own authority
\* has left with skip-cleanup, the display still up and unreleased
C18_Witness ==
    \E i \in Inst :
        /\ procs[i].pc = "exited" /\ ~procs[i].do_cleanup
        /\ procs[i].exit_status = EXIT_SUCCESS
        /\ procs[i].gr_up /\ ~procs[i].display_released
        /\ ~procs[i].systembus_socket_exists
        /\ SignalsRestored(procs[i]) /\ ListenerClosed(procs[i])

\* C19: a process that got past the option loop ends with the success
\* status and never by the immediate exit of a stop request, whatever
\* failed on its way: every step into the end is the return of main.
C19_AlwaysSuccess ==
    /\ [](\A i \in Inst :
             (~procs[i].opt_terminate /\ procs[i].pc = "exited") =>
                 /\ procs[i].exit_status = EXIT_SUCCESS
                 /\ ~procs[i].aborted)
    /\ [][\A i \in Inst :
             (/\ ~procs[i].opt_terminate
              /\ procs[i].pc # "exited" /\ procs'[i].pc = "exited") =>
                 MainRelease(i) /\ procs'[i].exit_status = EXIT_SUCCESS]_vars

\* C19 witness: the display could not be initialized at startup, stop was
\* requested for that, and the process has ended with the success status
C19_Witness ==
    \E i \in Inst :
        /\ procs[i].pc = "exited" /\ ~procs[i].opt_terminate
        /\ procs[i].exit_status = EXIT_SUCCESS
        /\ procs[i].gr_init_calls = 1 /\ procs[i].display_released
        /\ ~procs[i].do_cleanup /\ procs[i].loop_quit
        /\ procs[i].app_stop_ms > 0 /\ procs[i].stop_timer

\* The dispatch of the signal watch reads one record and requests stop.
\* With no other signal pending it restores the signals, drops the watch
\* and closes the descriptor in the same step, and the loop goes on to its
\* exit; whole is TRUE if that is so with another signal pending too.
\* The watch is never set up again, and a signal sent to a process whose
\* signals are unblocked ends it without a dispatch.
SignalBridge(i, whole) ==
    LET p == procs[i]
        q == procs'[i]
    IN  /\ SignalDispatch(i) =>
              /\ q.loop_quit /\ q.signals_iowatch_id = 0
              /\ ~q.signals_blocked /\ q.sig_pending = {}
              /\ IF whole \/ Cardinality(p.sig_pending) = 1
                 THEN /\ SignalsRestored(q)
                      /\ q.pc = "loop" /\ ~q.killed
                      /\ q = [p EXCEPT !.loop_quit = TRUE,
                                       !.frames = <<>>,
                                       !.reply = NoReply,
                                       !.sig_pending = {},
                                       !.signals_blocked = FALSE,
                                       !.signals_iowatch_id = 0,
                                       !.signals_signal_fd = NoFd]
                 ELSE /\ q.pc = "exited" /\ q.killed
                      /\ q.signals_signal_fd # NoFd
        /\ (p.signals_iowatch_id = 0 /\ q.signals_iowatch_id # 0) =>
              p.pc = "unstarted"
        /\ (~p.signals_blocked /\ q.signals_blocked) => p.pc = "unstarted"
        /\ (SignalArrives(i) /\ ~p.signals_blocked) =>
              q = [p EXCEPT !.killed = TRUE, !.pc = "exited"]
        /\ (SignalArrives(i) /\ p.signals_blocked) =>
              /\ q.pc = p.pc /\ ~q.killed
              /\ p.sig_pending \subseteq q.sig_pending
              /\ q.sig_pending # {}

\* C20 as stated: the dispatch always runs to its end, the watch dropped
\* and the descriptor closed.
C20_Original == [][\A i \in Inst : SignalBridge(i, TRUE)]_vars

\* C20: as stated, except that with both termination signals pending the
\* dispatch reads one and is ended by the other at the unblocking, the
\* descriptor still open; pending signals exist only while blocked.
C20_OneShot ==
    /\ [](\A i \in Inst :
             procs[i].sig_pending # {} =>
                 procs[i].signals_blocked /\ procs[i].pc # "exited")
    /\ [][\A i \in Inst : SignalBridge(i, FALSE)]_vars

\* C20 witness: the first signal was dispatched in the loop, which is
\* still to return, and a further signal has ended the process
C20_Witness ==
    \E i \in Inst :
        /\ procs[i].pc = "exited" /\ procs[i].killed
        /\ procs[i].mainloop_handle /\ procs[i].loop_quit
        /\ SignalsRestored(procs[i])
        /\ procs[i].app_mode # "none" /\ procs[i].stop_timer

\* The step of process i met a fatal condition: the display could not be
\* initialized, the object could not be registered, the name was lost
\* with no connection, the handoff server could not be set up with the
\* bus absent, an image the mode shows could not be loaded, or the mode
\* does not go with the number of images.
Fatal(i) ==
    LET p == procs[i]
        q == procs'[i]
    IN  \/ q.gr_init_calls > p.gr_init_calls /\ ~q.gr_up
        \/ DBusConnected(i) /\ ~q.dbus_object
        \/ DBusConnectFailed(i)
        \/ DBusDisconnected(i) /\ p.previous_call # "lost"
        \/ /\ AppStart(i) /\ ~systembus_is_available(p)
           /\ q.unix_server_iowatch_id = 0
        \/ /\ AppStart(i) \/ AnimateTick(i)
           /\ q.app_mode \in {"single_image", "animate_images"}
           /\ q.logo = NoLogo
        \/ /\ AppStart(i)
           /\ systembus_is_available(p) \/ q.unix_server_iowatch_id # 0
           /\ ExpectedMode(p) = "none"

\* C21: every step that meets a fatal condition requests stop and does
\* not end the process itself; a process asked to stop stays so, leaves
\* its loop and goes through the cleanup to its end.
C21_FatalStops ==
    /\ [][\A i \in Inst :
             /\ Fatal(i) => /\ procs'[i].loop_quit /\ procs'[i].pc = "loop"
                            /\ ~procs'[i].aborted
             /\ (InLoop(i) /\ procs[i].loop_quit /\ procs'[i].pc # "loop")
                   => MainLoopExit(i)
             /\ (procs[i].pc = "cleanup" /\ procs'[i].pc # "cleanup")
                   => MainCleanup(i)]_vars
    /\ \A i \in Inst :
          (InLoop(i) /\ procs[i].loop_quit)
              ~> (procs[i].pc = "exited" /\ SignalsRestored(procs[i])
                  /\ ListenerClosed(procs[i]))

\* C21 witness: the object could not be registered on the bus, and the
\* process has gone through the cleanup
C21_Witness ==
    \E i \in Inst :
        /\ procs[i].pc = "exited" /\ procs[i].exit_status = EXIT_SUCCESS
        /\ procs[i].bus_conn = "open" /\ ~procs[i].dbus_object
        /\ procs[i].loop_quit /\ ~procs[i].stop_timer
        /\ SignalsRestored(procs[i])

\* The startup step of process i started the single image mode, or the
\* progress bar with an image, and the image could not be loaded
StartLoadFailed(i) ==
    /\ AppStart(i)
    /\ procs'[i].app_mode \in {"single_image", "progress_bar"}
    /\ procs[i].app_image_count > 0 /\ procs'[i].logo = NoLogo

\* What a failed load does to process i; recoverable: the single image
\* and progress bar modes go on without the image
LoadFailure(i, recoverable) ==
    LET p == procs[i]
        q == procs'[i]
    IN  /\ StartLoadFailed(i) =>
              IF recoverable
              THEN q.display_released \/ q.loop_quit = p.loop_quit
              ELSE /\ q.loop_quit /\ q.pc = "loop"
                   /\ q.app_draw_ui_cb = "none" /\ q.frames = <<>>
                   /\ q.mode_timer = "none" /\ q.app_step = NoStep
        /\ (/\ AppStart(i) \/ AnimateTick(i)
            /\ q.app_mode = "animate_images" /\ q.logo = NoLogo) =>
              /\ q.loop_quit /\ q.pc = "loop" /\ q.frames = <<>>
              /\ AnimateTick(i) => q.mode_timer = "none"
        /\ (/\ AppStart(i) /\ q.app_mode = "progress_bar"
            /\ p.app_image_count = 0 /\ ~q.display_released) =>
              /\ q.loop_quit = p.loop_quit
              /\ q.mode_timer = "progress_bar" /\ q.app_step = 0

QueryReply(p, method_name) ==
    IF method_name = "privateTopmostWindowProcessId"
    THEN Reply(method_name, "i", p.pid)
    ELSE IF method_name = "privateGetSetupActions"
    THEN Reply(method_name, "u", COMPOSITOR_ACTION_STOP_HWC)
    ELSE Reply(method_name, "error", 0)

\* C23: a method call other than setUpdatesEnabled changes nothing of
\* the process but the reply it sends: its own process id, the setup
\* action 'stop hardware compositor' (1) and nothing else, or the error
\* for a method that is not handled; the property handlers return no
\* value and FALSE and change nothing either. Every call is answered once.
C23_PureQueries ==
    [][\A i \in Inst :
          LET p == procs[i]
              q == procs'[i]
          IN  \/ q = p
              \/ q.reply = NoReply
                    /\ ~(MethodCall(i) \/ PropertyGet(i) \/ PropertySet(i))
              \/ /\ q.reply.method = "setUpdatesEnabled"
                 /\ MethodCall(i)
              \/ /\ q.reply.method \in Methods \ {"setUpdatesEnabled"}
                 /\ MethodCall(i) /\ q.pid = i
                 /\ q = [p EXCEPT !.frames = <<>>,
                                  !.reply = QueryReply(p, q.reply.method)]
              \/ /\ q.reply.method = "Get"
                 /\ PropertyGet(i)
                 /\ q = [p EXCEPT !.frames = <<>>,
                                  !.reply = Reply("Get", "none", 0)]
              \/ /\ q.reply.method = "Set"
                 /\ PropertySet(i)
                 /\ q = [p EXCEPT !.frames = <<>>,
                                  !.reply = Reply("Set", "b", 0)]]_vars

\* C23 witness: the setup actions were asked of a process that draws,
\* and it goes on drawing
C23_Witness ==
    \E i \in Inst :
        /\ InLoop(i) /\ ~procs[i].loop_quit
        /\ procs[i].reply = Reply("privateGetSetupActions", "u", 1)
        /\ display_can_be_drawn(procs[i])
        /\ procs[i].dbus_object /\ procs[i].app_mode # "none"

(***************************************************************************)
(* The tools on their own: yamui is not running                            *)
(***************************************************************************)

InitTools ==
    /\ procs = [i \in Inst |-> InitProc(TerminateConfig)]
    /\ sock = [i \in Inst |-> NoConn]
    /\ bus_socket_file = FALSE
    /\ ToolsNotStarted

NextPowerkey ==
    \/ PkStart
    \/ PkTick
    \/ PkTimeout
    \/ PkEvent
    \/ PkSignal
    \/ PkSelectError

SpecPowerkey == InitTools /\ [][NextPowerkey]_vars

NextScreensaverd ==
    \/ SsStart
    \/ SsTick
    \/ SsTimeout
    \/ SsEvent
    \/ SsSignal
    \/ SsSelectError

SpecScreensaverd == InitTools /\ [][NextScreensaverd]_vars

\* C24: yamui-powerkey exits with status 0 when the power key was pressed,
\* with 1 when a signal was received and with 2 when an error occurred
C24_ExitStatus ==
    powerkey.pc = "exited" =>
        /\ powerkey.cause = "key" => powerkey.ret = 0
        /\ powerkey.cause = "signal" => powerkey.ret = 1
        /\ powerkey.cause = "error" => powerkey.ret = 2

\* C25: yamui-powerkey exits with the power-key status only once the power
\* key has been held, with no release of it in between, for the whole
\* configured duration. While the key is down the time still to wait and
\* the time held add up to the duration, so a press after a release waits
\* the whole duration again; a release before the timeout leads back to
\* key_up without an exit. Without -u the exit is the timeout itself; with
\* -u it is the release of the key after the timeout (the events read
\* with the release may hold a new press, which starts at 0)
C25_LongPress ==
    /\ [](powerkey.pc = "select" =>
            /\ powerkey.power_key_state = "key_up"
                   <=> powerkey.held = NotHeld
            /\ powerkey.power_key_state = "key_down" =>
                   powerkey.key_tv + powerkey.held = powerkey.duration
            /\ powerkey.power_key_state = "key_long_press" =>
                   powerkey.wait_key_up /\ powerkey.held >= powerkey.duration)
    /\ [][/\ (powerkey.power_key_state = "key_down"
                 /\ powerkey'.power_key_state = "key_up")
                    => powerkey'.pc = "select"
          /\ (powerkey'.pc = "exited" /\ powerkey'.ret = EXIT_SUCCESS)
                 => /\ powerkey.pc = "select"
                    /\ powerkey'.cause = "key"
                    /\ powerkey.held >= powerkey.duration
                    /\ IF powerkey.wait_key_up
                       THEN /\ powerkey.power_key_state = "key_long_press"
                            /\ powerkey'.held \in {NotHeld, 0}
                       ELSE /\ powerkey.power_key_state = "key_down"
                            /\ powerkey.key_tv = 0
                            /\ powerkey'.held = powerkey.held]_vars

C25_Witness ==
    /\ powerkey.pc = "exited"
    /\ powerkey.cause = "key"
    /\ powerkey.wait_key_up
    /\ powerkey.duration >= 2
    /\ powerkey.held = NotHeld

\* How yamui-screensaverd left its main loop
LoopExits == {"signal", "read", "select"}

\* A turn writes at most once, and never the state already recorded
NoRedundantWrite ==
    /\ Len(screensaverd'.wrote) <= 1
    /\ screensaverd.display_state = "state_on" =>
           (\A k \in 1..Len(screensaverd'.wrote) : screensaverd'.wrote[k] # 0)
    /\ screensaverd.display_state = "state_off" =>
           (\A k \in 1..Len(screensaverd'.wrote) : screensaverd'.wrote[k] # 1)

C27_OnePendingConnect ==
    /\ [](\A i \in Inst :
             /\ procs[i].connect_sources \in {0, 1}
             /\ procs[i].compositor_connect_id # 0
                    <=> procs[i].connect_sources = 1)
    /\ [][\A i \in Inst :
             (/\ procs[i].compositor_connect_id # 0
              /\ procs'[i] # procs[i]
              /\ SocketMonitorEvent(i))
                => /\ procs'[i].connect_sources = 1
                   /\ procs'[i].compositor_connect_id
                         = procs[i].compositor_connect_id]_vars

\* C27 witness: a connect timer is pending in a process that has been
\* told to stop and sees the bus socket
C27_Witness ==
    \E i \in Inst :
        /\ InLoop(i) /\ procs[i].loop_quit
        /\ procs[i].systembus_socket_exists
        /\ procs[i].compositor_name_owning_id = 0
        /\ procs[i].compositor_connect_id # 0
        /\ procs[i].connect_sources = 1

\* C28: a process never has more than one request for the service name
\* active, and compositor_name_owning_id is non-zero exactly while it has
\* one. Only a connect timer that fires adds a request, and only when the
\* bus socket is observed present and no request is active; the cleanup
\* that disconnects leaves no connect timer and no request
C28_OneNameRequest ==
    /\ [](\A i \in Inst :
             /\ procs[i].name_requests \in {0, 1}
             /\ procs[i].compositor_name_owning_id # 0
                    <=> procs[i].name_requests = 1)
    /\ [][\A i \in Inst :
             LET p == procs[i]
                 q == procs'[i]
             IN  \/ q = p
                 \/ /\ p.connect_sources > 0
                    /\ CompositorConnectTimer(i)
                    /\ q.name_requests =
                          IF systembus_is_available(p) /\ p.name_requests = 0
                          THEN 1 ELSE p.name_requests
                 \/ /\ p.pc = "release" /\ p.do_cleanup
                    /\ q.connect_sources = 0 /\ q.compositor_connect_id = 0
                    /\ q.name_requests = 0
                    /\ q.compositor_name_owning_id = 0
                 \/ /\ ~(p.pc = "release" /\ p.do_cleanup)
                    /\ ~(p.connect_sources > 0 /\ CompositorConnectTimer(i))
                    /\ q.name_requests = p.name_requests]_vars

\* C28 witness: a process that had asked for the name has run its cleanup
C28_Witness ==
    \E i \in Inst :
        /\ procs[i].pc = "exited" /\ procs[i].do_cleanup
        /\ procs[i].bus_conn # "none"
        /\ procs[i].name_requests = 0
        /\ procs[i].connect_sources = 0

\* C29: the hardware blank state is changed only with the display acquired
\* and only by a request whose value differs from the recorded flag: no
\* hardware call repeats the value of the call before it, the first call
\* is a blank, and display_blanked is the value of the last call, or false
\* when none was made
C29_BlankAlternates ==
    /\ [](\A i \in Inst :
             /\ procs[i].hw_blank # "repeated"
             /\ procs[i].display_blanked <=> procs[i].hw_blank = "blank")
    /\ [][\A i \in Inst :
             LET p == procs[i]
                 q == procs'[i]
             IN  q.hw_blank # p.hw_blank =>
                    /\ display_is_acquired(q)
                    /\ q.display_blanked # p.display_blanked
                    /\ p.hw_blank = "never" => q.hw_blank = "blank"]_vars

\* C29 witness: the display was blanked and unblanked again
C29_Witness ==
    \E i \in Inst :
        /\ display_is_acquired(procs[i])
        /\ procs[i].hw_blank = "unblank"
        /\ ~procs[i].display_blanked

(***************************************************************************)
(* The timed modes started with every duration the option loop accepts     *)
(***************************************************************************)

\* strtoull() and strtoul() return any value of their type
InitPeriod ==
    /\ \/ \E D \in 1..(2 ^ ULLONG_BITS - 1), n \in 0..1 :
             procs = [i \in Inst |->
                        InitProc(IF i = 1
                                 THEN Cfg(D, 0, n, n = 0, 0, FALSE, TRUE)
                                 ELSE TerminateConfig)]
       \/ \E D \in 1..(2 ^ ULONG_BITS - 1), n \in 2..MaxImages :
             procs = [i \in Inst |->
                        InitProc(IF i = 1
                                 THEN Cfg(0, D, n, FALSE, 0, FALSE, TRUE)
                                 ELSE TerminateConfig)]
    /\ sock = [i \in Inst |-> NoConn]
    /\ ToolsNotStarted
    /\ bus_socket_file = TRUE

NextPeriod == \E i \in {1} : MainStart(i) \/ AppStart(i)

SpecPeriod == InitPeriod /\ [][NextPeriod]_vars

\* The steps of the mode of a process: 101 for the progress bar, one for
\* each image of an animation
ModeSteps(p) ==
    IF p.mode_timer = "progress_bar" THEN PROGRESS_LAST + 1
    ELSE p.app_image_count

\* The duration given for the mode of a process
ModeDuration(p) ==
    IF p.mode_timer = "progress_bar" THEN p.app_progress_ms
    ELSE p.app_animate_ms

Ceiling(D, n) == IF D % n = 0 THEN D \div n ELSE D \div n + 1

\* C30: the period of the timer of a timed mode is ceil(D / n) for the
\* duration D > 0 given, with n = 101 for the progress bar and n the number
\* of images for an animation; it is at least 1 ms and n periods are never
\* less than D
C30_PeriodCeiling ==
    \A i \in Inst :
        (InLoop(i) /\ procs[i].mode_timer # "none") =>
            LET D == ModeDuration(procs[i])
                n == ModeSteps(procs[i])
            IN  /\ procs[i].mode_period = Ceiling(D, n)
                /\ procs[i].mode_period >= 1
                /\ n * procs[i].mode_period >= D

\* C31: on the listening socket of the handoff, an error, hangup or invalid
\* condition requests the stop and detaches the watch, with
\* unix_server_iowatch_id cleared; a readable event whose accept() fails,
\* with no client accepted before, requests no stop and leaves the watch
\* and its id as they are. The id is non-zero exactly while the watch is
\* attached
C31_ListenerConditions ==
    /\ [](\A i \in Inst :
             /\ procs[i].unix_server_watches \in {0, 1}
             /\ procs[i].unix_server_iowatch_id # 0
                    <=> procs[i].unix_server_watches = 1)
    /\ [][\A i \in Inst :
             LET p == procs[i]
                 q == procs'[i]
             IN  p.unix_server_watches > 0 =>
                    /\ UnixServerError(i) =>
                          /\ q.loop_quit /\ ~q.aborted /\ q.pc = "loop"
                          /\ q.unix_server_watches = 0
                          /\ q.unix_server_iowatch_id = 0
                    /\ (UnixServerAcceptFail(i)
                           /\ p.unix_server_client_fd = NoFd) =>
                          /\ q = Begin(p)
                          /\ q.loop_quit = p.loop_quit
                          /\ q.unix_server_watches = 1
                          /\ q.unix_server_iowatch_id
                                = p.unix_server_iowatch_id]_vars

\* C31 witness: a condition other than readable has taken the watch from
\* a listening socket that is still open
C31_Witness ==
    \E i \in Inst :
        /\ InLoop(i) /\ procs[i].loop_quit
        /\ procs[i].unix_server_socket_fd # NoFd
        /\ procs[i].unix_server_iowatch_id = 0
        /\ procs[i].unix_server_watches = 0

\* C32: every tick of the mode timer advances the step counter, whether
\* or not the display can be drawn; a tick that falls while it cannot
\* presents nothing, and what it would have shown is never presented
\* later: every frame shows the step and the image of the moment it is
\* presented, and the redraw of a re-enable is one frame of the step that
\* is current then, which it leaves as it is
C32_MissedFramesDropped ==
    [][\A i \in Inst :
          LET p == procs[i]
              q == procs'[i]
          IN  /\ (p.mode_timer = "progress_bar" /\ ProgressTick(i)) =>
                    /\ q.app_step = p.app_step + 1
                    /\ ~display_can_be_drawn(p) => q.frames = <<>>
              /\ (p.mode_timer = "animate_images" /\ AnimateTick(i)) =>
                    /\ q.app_step = (p.app_step + 1) % p.app_image_count
                    /\ ~display_can_be_drawn(p) => q.frames = <<>>
              /\ \A k \in 1..Len(q.frames) :
                    /\ q.frames[k].step = q.app_step
                    /\ q.frames[k].logo = q.logo
              /\ (/\ p.app_draw_ui_cb # "none"
                  /\ ~p.display_enabled /\ q.display_enabled) =>
                    /\ Len(q.frames) = 1
                    /\ q.app_step = p.app_step
                    /\ q.logo = p.logo]_vars

\* C32 witness: an animation is repainted at its second image after the
\* display had been blanked
C32_Witness ==
    \E i \in Inst :
        /\ procs[i].mode_timer = "animate_images"
        /\ procs[i].hw_blank = "unblank"
        /\ procs[i].app_step = 1
        /\ Len(procs[i].frames) = 1
        /\ procs[i].frames[1].mode = "animate_images"
        /\ procs[i].frames[1].step = 1

\* C33: whenever the progress bar is drawn, by a tick or by the redraw
\* after a re-enable, the percentage handed to osUpdateScreenShowProgress()
\* is within 0..100: neither the initial -1 nor the final 101 of the step
\* counter is drawn
C33_PercentageInRange ==
    \A i \in Inst :
        \A k \in 1..Len(procs[i].frames) :
            procs[i].frames[k].mode = "progress_bar" =>
                procs[i].frames[k].step \in 0..PROGRESS_LAST

\* C34: app_systemd_notify holds the readiness-notify option from the start
\* of the process and is cleared by the one sd_notify() call; the cleanup
\* sends the notification exactly when it is still owed; and main() returns
\* with one notification sent if the option was given and none otherwise
C34_NotifiedByReturn ==
    [][\A i \in Inst :
          LET p == procs[i]
              q == procs'[i]
              owed(r) == IF r.app_systemd_notify THEN 1 ELSE 0
          IN  /\ Started(i) => q.sd_notify_calls = 0
              /\ ~Started(i) =>
                    q.sd_notify_calls + owed(q) = p.sd_notify_calls + owed(p)
              /\ Notified(i) =>
                    /\ p.app_systemd_notify /\ p.sd_notify_calls = 0
                    /\ q.sd_notify_calls = 1
              /\ MainCleanup(i) => (Notified(i) <=> p.app_systemd_notify)
              /\ MainRelease(i) =>
                    /\ ~q.app_systemd_notify
                    /\ q.sd_notify_calls = p.sd_notify_calls]_vars

\* C34 witness: main() has returned after a cleanup that sent the
\* notification no method call had sent
C34_Witness ==
    \E i \in Inst :
        /\ procs[i].pc = "exited" /\ procs[i].exit_status = EXIT_SUCCESS
        /\ ~procs[i].opt_terminate
        /\ procs[i].sd_notify_calls = 1
        /\ ~procs[i].app_already_enabled

\* C35: a stop request made while the loop runs is never taken back by a
\* later dispatch and the loop is left only by g_main_loop_run() returning;
\* under fair scheduling the loop then returns, the cleanup runs, and the
\* process ends by returning EXIT_SUCCESS from main()
C35_StopTerminates ==
    /\ [][\A i \in Inst :
             /\ (InLoop(i) /\ procs[i].loop_quit) =>
                   /\ procs'[i].loop_quit
                   /\ ~procs'[i].aborted /\ ~procs'[i].killed
                   /\ procs'[i].pc \in {"loop", "cleanup"}
                   /\ procs'[i].pc = "cleanup" <=> MainLoopExit(i)
             /\ MainLoopExit(i) => ~procs'[i].mainloop_handle
             /\ procs[i].pc = "cleanup" =>
                   /\ procs'[i].pc \in {"cleanup", "release"}
                   /\ procs'[i].pc = "release" <=> MainCleanup(i)
             /\ procs[i].pc = "release" =>
                   /\ procs'[i].pc \in {"release", "exited"}
                   /\ procs'[i].pc = "exited" <=> MainRelease(i)]_vars
    /\ \A i \in Inst :
          (InLoop(i) /\ procs[i].loop_quit)
              ~> (procs[i].pc = "exited"
                  /\ procs[i].exit_status = EXIT_SUCCESS)

\* C35 witness: a process started with a stop timer, which had acquired the
\* bus name, was asked to stop and has returned from main()
C35_Witness ==
    \E i \in Inst :
        /\ procs[i].pc = "exited" /\ procs[i].exit_status = EXIT_SUCCESS
        /\ procs[i].loop_quit /\ procs[i].stop_timer = FALSE
        /\ procs[i].app_stop_ms > 0
        /\ procs[i].previous_call = "acquired"

\* C36: a startup step that ends with the display released (the optimistic
\* acquisition failed) has started no presentation mode: it leaves no image
\* loaded and no mode timer armed
C36_NoModeAfterRelease ==
    [][\A i \in Inst :
          (AppStart(i) /\ procs'[i].display_released) =>
              /\ procs'[i].logo = NoLogo
              /\ procs'[i].mode_timer = "none"]_vars

\* C37: display_enabled and display_blanked are never both true; blanked
\* changes only in a step that changes enabled, to the opposite of the new
\* enabled, so it is true only from a true-to-false change of enabled to
\* the next false-to-true change; and while the display is acquired,
\* display_can_be_drawn() is display_enabled
C37_EnabledXorBlanked ==
    /\ [](\A i \in Inst :
             /\ ~(procs[i].display_enabled /\ procs[i].display_blanked)
             /\ display_is_acquired(procs[i]) =>
                   (display_can_be_drawn(procs[i]) <=> procs[i].display_enabled))
    /\ [][\A i \in Inst :
             LET p == procs[i]
                 q == procs'[i]
             IN  /\ q.display_blanked # p.display_blanked =>
                       /\ q.display_enabled # p.display_enabled
                       /\ q.display_blanked = ~q.display_enabled
                 /\ (p.display_enabled /\ ~q.display_enabled) =>
                       q.display_blanked
                 /\ (~p.display_enabled /\ q.display_enabled) =>
                       ~q.display_blanked]_vars

\* C37 witness: updates are enabled again after they had been disabled and
\* the display blanked, and the frame of the redraw has been presented
C37_Witness ==
    \E i \in Inst :
        /\ procs[i].pc = "loop" /\ display_is_acquired(procs[i])
        /\ procs[i].display_enabled /\ ~procs[i].display_blanked
        /\ procs[i].hw_blank = "unblank"
        /\ Len(procs[i].frames) = 1

\* C39: select() is given a timeout exactly while power_key_state is
\* key_down, so it returns 0 in that state only, and handle_timeout() never
\* answers with the ret_failure of its unexpected-state branch
C39_TimeoutOnlyKeyDown ==
    /\ [](powerkey.pc = "select" =>
             (get_timeout_value(powerkey) = "key_tv"
                 <=> powerkey.power_key_state = "key_down"))
    /\ [][PkTimeout =>
             /\ powerkey.power_key_state = "key_down"
             /\ powerkey'.r # "ret_failure"
             /\ powerkey'.pc = "exited" =>
                   /\ powerkey'.cause = "key"
                   /\ powerkey'.ret = EXIT_SUCCESS]_vars

\* C39 witness: the timeout has expired with the key down and, as the
\* release is waited for, the wait goes on without a timeout
C39_Witness ==
    /\ powerkey.pc = "select" /\ powerkey.wait_key_up
    /\ powerkey.power_key_state = "key_long_press"
    /\ powerkey.key_tv = 0
    /\ get_timeout_value(powerkey) = "NULL"

\* Process i dispatches a name-lost notification of the bus
NameLostDelivered(i) ==
    /\ procs[i].bus_inbox # <<>>
    /\ Head(procs[i].bus_inbox) = "lost"
    /\ procs[i].previous_call # "lost"
    /\ BusDeliver(i)

\* An instance that runs on holding itself the owner, with no
\* notification left to read
RunsAsOwner(i) ==
    /\ procs[i].pc = "loop" /\ ~procs[i].loop_quit
    /\ procs[i].compositor_name_acquired
    /\ procs[i].bus_inbox = <<>>

\* C38: an instance that had acquired the name requests stop in the
\* dispatch of the name-lost notification that tells it of its
\* replacement; a name-lost notification dispatched before the name was
\* acquired changes nothing but the bookkeeping and leaves the instance
\* running; and of the instances that run on as owner there is at most
\* one, the one the bus has as owner
C38_Handover ==
    /\ [](/\ Cardinality({i \in Inst : RunsAsOwner(i)}) <= 1
          /\ \A i \in Inst : RunsAsOwner(i) => procs[i].bus_name = "owner")
    /\ [][\A i \in Inst :
             NameLostDelivered(i) =>
                 IF procs[i].compositor_name_acquired
                 THEN procs'[i].loop_quit /\ procs'[i].pc = "loop"
                 ELSE procs'[i] = [Begin(procs[i]) EXCEPT
                                      !.bus_inbox = Tail(@),
                                      !.previous_call = "lost"]]_vars

\* C38 witness: the first instance, which had acquired the name, was told
\* of its loss and has requested stop, and the second runs on as the owner
C38_Witness ==
    /\ procs[1].compositor_name_acquired /\ procs[1].previous_call = "lost"
    /\ procs[1].loop_quit /\ procs[1].sig_pending = {}
    /\ RunsAsOwner(2) /\ procs[2].bus_name = "owner"

====
